---- MODULE Spec2Model ----
(***************************************************************************)
(* A model of the parallel batch processor of tarot_capital                *)
(* (src/parallel_batch_processor.py) with the parts of the extractor       *)
(* (src/psu_extractor_api_ninjas.py) and of the HTTP client                *)
(* (src/api_ninjas_client.py) that its worker threads run.                 *)
(*                                                                         *)
(* The specifications share the variables:                                 *)
(*   SpecGate  the worker threads with time: the global rate-limit gate of *)
(*             process_ticker and every external call an extraction makes  *)
(*             (price, filing list, filing downloads) with the delay the   *)
(*             client sleeps before it.  Time is counted in units of half  *)
(*             a second, the largest unit that divides every delay.        *)
(*   Spec      the orchestration without time: the pool, the collecting    *)
(*             main thread, the two locks, save_progress and the progress  *)
(*             file, the signal handler and a kill of the process.         *)
(*   FairSpec  Spec with the fairness of the scheduler.                    *)
(*   SpecRestart  Spec with restarts of the program from the progress file.*)
(***************************************************************************)
EXTENDS Integers, Sequences, FiniteSets, TLC

(***************************************************************************)
(* Bounds of the model.                                                    *)
(***************************************************************************)
\* Number of tickers load_tickers returns.
NumTickers == 2

\* The most filings get_sec_filings returns in the run that follows the
\* filing contents.
WindowFilings == 3

\* Largest number of Form 4 filings the filing service returns for a ticker.
MaxFilings == 1

\* Number of times the program is started (SpecRestart).
MaxRuns == 2

\* The number of tickers of the run in which the periodic saves are followed.
CadenceTickers == 20

\* The most filings search_form4_filings lists for the ticker whose
\* extraction is followed on its own.
ExtractFilings == 2

\* The most words of a filing text.
MaxTextLen == 5

\* The most targets passed to validate_psu_targets.
MaxTargets == 3

(***************************************************************************)
(* Program constants.  Durations are in units of 0.5 s.                    *)
(***************************************************************************)
\* ParallelBatchProcessor.__init__: self.max_workers = 3
max_workers == 3

\* ParallelBatchProcessor.__init__: self.global_min_request_interval = 1.0
global_min_request_interval == 2

\* APINinjasClient.__init__: self.api_ninjas_delay = 0.5
api_ninjas_delay == 1

\* APINinjasClient.download_filing_content: time.sleep(2.0)
sec_download_delay == 4

\* process_all_tickers_parallel: if (i + 1) % 10 == 0: self.save_progress()
save_every == 10

\* process_ticker, line 316: max_retries = 3
max_retries == 3

\* process_ticker, line 317: retry_delay = 2.0 seconds
retry_delay == 4

TickerUniverse == <<"AAPL", "MSFT", "GOOG", "AMZN", "TSLA", "NVDA">>

\* load_tickers: the ordered ticker list of tickers.txt.
Tickers == SubSeq(TickerUniverse, 1, NumTickers)

TickerSet == {Tickers[k] : k \in 1..NumTickers}

NoTicker == "-"

Min(a, b) == IF a < b THEN a ELSE b

\* The values of a list.
Elements(list) == {list[k] : k \in 1..Len(list)}

\* The least number of a non-empty set of numbers.
Least(S) == CHOOSE x \in S : \A y \in S : x <= y

VARIABLES
    \* ---- the executor and its tasks.  A pool thread runs one task at a
    \* time and keeps nothing between tasks, so the threads are modelled by
    \* the tasks they run: at most max_workers tasks run at once.
    tpc,            \* tpc[t]: where the task process_ticker(t) stands
    global_lock,    \* the task whose thread holds self.global_lock, or NoTicker
    \* ---- time (SpecGate)
    rem,            \* rem[t]: what is left of the current time.sleep of t's thread
    granted,        \* self.last_global_request > 0
    since_grant,    \* time.time() - self.last_global_request, saturated
    todo,           \* todo[t]: filings still to download in the current loop
    got,            \* got[t]: filings downloaded with content (search_form4_filings)
    phase,          \* phase[t]: 1 in search_form4_filings, 2 in extract_from_ticker
    \* ---- observers of SpecGate
    n_grants,       \* gate grants so far, saturated at 2
    grant_gap,      \* smallest time between two consecutive grants, saturated
    n_calls,        \* external calls started so far, saturated at 2
    since_call,     \* time since the latest external call started, saturated
    call_gap,       \* smallest time between two consecutive call starts, saturated
    \* ---- the process and its main thread (Spec)
    proc,           \* "running", "exited" (sys.exit or return of main), "killed"
    pc,             \* pc[f]: where frame f of the main thread stands; the
                    \* signal handler runs as a frame on top of the main one
    save_ctx,       \* which call of save_progress the main frame is in
    results_lock,   \* holder of self.results_lock ("free" or a frame)
    future,         \* future[t]: what process_ticker returned for ticker t
    done_q,         \* futures completed and not yet yielded by as_completed
    tresult,        \* tresult[t]: the result process_ticker(t) is about to return
    cur,            \* ticker of the future the main thread is aggregating
    i,              \* futures yielded so far (enumerate's i, plus one when done)
    stats,          \* self.stats
    results,        \* self.results
    high_upside_results,
    low_upside_results,
    file,           \* the progress file parallel_batch_progress.json
    main_output,    \* the main result file written by save_results
    \* ---- observers of Spec
    signalled,      \* a termination signal has been received
    handler_saved,  \* the handler's save_progress has returned
    aggregated,     \* aggregated[t]: how often t's result was aggregated
    seen,           \* the values the shared state has had since the latest save_progress
                    \* took its snapshot under results_lock
    run,            \* number of the process (1 for the first start, +1 per restart)
    loaded,         \* the tickers in the results load_progress read at construction
    saves,          \* the processed_tickers recorded by each save_progress this
                    \* process has completed, in order
    \* ---- one call of extract_from_ticker (SpecExtract)
    xprice,         \* what get_stock_price returns (0: no price)
    xfilings,       \* what search_form4_filings returns: for each filing what its
                    \* second download and extract_psu_price_targets give
    xresult,        \* the result of the call (NoResult before it)
    \* ---- one call of process_ticker with raising attempts (SpecRetry)
    errs,           \* the errors its extraction attempts have raised so far
    rt_pc,          \* "attempt", "returned" or "raised"
    rt_result,      \* what process_ticker returned
    rt_sleeps,      \* the durations of its backoff sleeps, in order
    \* ---- the constructor's argument (SpecPool)
    arg_max_workers, \* max_workers as passed to ParallelBatchProcessor
    \* ---- one call of extract_psu_price_targets (SpecText)
    ftext,          \* the filing text, a sequence of words and marks
    fdone,          \* the call has returned
    ftargets,       \* the targets it returned, in cents
    flist,          \* the list it returned
    \* ---- one call of validate_psu_targets (SpecValidate)
    vtargets,       \* the list of targets passed
    vprice,         \* current_stock_price
    vdone,          \* the call has returned
    vvalid,         \* the list it returned
    \* ---- the request failures of one call of process_ticker (SpecClassify)
    rt_msgs,        \* what the texts of the RequestExceptions raised so far carry
    \* ---- the filing contents of one call of extract_from_ticker (SpecFetch)
    sf_n,           \* how many filings get_sec_filings returned
    sf_pc,          \* "none", "search", "analyse" or "returned"
    sf_k,           \* the position of the running loop in its list
    filings_with_content, \* the filings whose dict holds its 'content'
    sf_content,     \* the filing whose text extract_from_ticker's `content` is (0: none)
    fetched,        \* the filings downloaded so far, in order
    analysed,       \* the filings passed to extract_psu_price_targets, in order
    \* ---- the retry loop of every task (FairRun)
    n_extract,      \* n_extract[t]: calls of extract_from_ticker made for t
    n_gate,         \* n_gate[t]: passages of t's task through the global gate
    terr            \* terr[t]: the error t's last call raised, being handled

gateVars == <<rem, granted, since_grant, todo, got, phase,
              n_grants, grant_gap, n_calls, since_call, call_gap>>

poolVars == <<tpc, global_lock>>

orchVars == <<proc, pc, save_ctx, results_lock, future, done_q, tresult, cur, i,
              stats, results, high_upside_results, low_upside_results, file,
              main_output, signalled, handler_saved, aggregated, seen, run, loaded,
              saves, xprice, xfilings, xresult, errs, rt_pc, rt_result, rt_sleeps,
              arg_max_workers, ftext, fdone, ftargets, flist,
              vtargets, vprice, vdone, vvalid, rt_msgs,
              sf_n, sf_pc, sf_k, filings_with_content, sf_content, fetched, analysed,
              n_extract, n_gate, terr>>

\* The variables of SpecExtract and SpecRetry.
pureVars == <<xprice, xfilings, xresult, errs, rt_pc, rt_result, rt_sleeps>>

\* The variables of SpecText.
textVars == <<ftext, fdone, ftargets, flist>>

\* The variables of SpecFetch.
fetchVars == <<sf_n, sf_pc, sf_k, filings_with_content, sf_content, fetched, analysed>>

\* The variables of FairRun.
loopVars == <<n_extract, n_gate, terr>>

\* The variables of SpecValidate.
validVars == <<vtargets, vprice, vdone, vvalid>>

vars == <<poolVars, gateVars, orchVars>>

(***************************************************************************)
(* The global gate of process_ticker (lines 329-338).                      *)
(***************************************************************************)
\* A mutant of WaitTime: the gate never waits.
WaitTimeNoGate(was_granted, elapsed) == 0

\* wait_time: how long the holder of global_lock sleeps before it stamps.
\* `was_granted` is last_global_request > 0, `elapsed` is
\* current_time - last_global_request.
WaitTime(was_granted, elapsed) ==
    IF was_granted /\ elapsed < global_min_request_interval
    THEN global_min_request_interval - elapsed
    ELSE 0

\* Tasks a pool thread is running; the pool has max_workers threads.
RunningTasks == {t \in TickerSet : tpc[t] \notin {"new", "pending", "done"}}

\* The work queue is first in, first out: the next task to start is the
\* first one, in submission order, that no thread has taken.
NextPending(t) ==
    /\ tpc[t] = "pending"
    /\ \A k, l \in 1..NumTickers : (Tickers[l] = t /\ k < l) => tpc[Tickers[k]] # "pending"

\* self.max_workers when the pool is created (line 498): __init__ stores
\* its argument at line 29 and overwrites it with 3 at line 58.
PoolSize(arg) == max_workers

\* A pool thread is free to take a work item.
PoolHasIdleThread == Cardinality(RunningTasks) < PoolSize(arg_max_workers)

\* self.last_global_request = time.time(), and what the observers see of it.
Stamp ==
    /\ granted' = TRUE
    /\ since_grant' = 0
    /\ grant_gap' = IF granted THEN Min(grant_gap, since_grant) ELSE grant_gap
    /\ n_grants' = Min(n_grants + 1, 2)

\* An external request leaves the client (session.get).
StartCall ==
    /\ n_calls' = Min(n_calls + 1, 2)
    /\ since_call' = 0
    /\ call_gap' = IF n_calls > 0 THEN Min(call_gap, since_call) ELSE call_gap

NoCall == UNCHANGED <<n_calls, since_call, call_gap>>

NoStamp == UNCHANGED <<granted, since_grant, grant_gap, n_grants>>

\* _worker of the pool: a thread takes the next work item and calls
\* process_ticker, which starts its first attempt.
GTake(t) ==
    /\ NextPending(t)
    /\ PoolHasIdleThread
    /\ tpc' = [tpc EXCEPT ![t] = "gate"]
    /\ UNCHANGED <<global_lock, gateVars, orchVars>>

\* with self.global_lock: read the clock, compute the wait; either sleep
\* (holding the lock) or stamp at once and leave the section.  After the
\* section extract_from_ticker starts: _api_ninjas_request sleeps
\* api_ninjas_delay before the price request.
GGateEnter(t) ==
    /\ tpc[t] = "gate"
    /\ global_lock = NoTicker
    /\ LET wait_time == WaitTime(granted, since_grant) IN
       IF wait_time > 0
       THEN /\ global_lock' = t
            /\ rem' = [rem EXCEPT ![t] = wait_time]
            /\ tpc' = [tpc EXCEPT ![t] = "gate_sleep"]
            /\ NoStamp
       ELSE /\ Stamp
            /\ global_lock' = NoTicker
            /\ rem' = [rem EXCEPT ![t] = api_ninjas_delay]
            /\ tpc' = [tpc EXCEPT ![t] = "price_delay"]
    /\ NoCall
    /\ UNCHANGED <<todo, got, phase, orchVars>>

\* time.sleep(wait_time) is over: stamp and leave the section.
GGateStamp(t) ==
    /\ tpc[t] = "gate_sleep"
    /\ rem[t] = 0
    /\ Stamp
    /\ global_lock' = NoTicker
    /\ rem' = [rem EXCEPT ![t] = api_ninjas_delay]
    /\ tpc' = [tpc EXCEPT ![t] = "price_delay"]
    /\ NoCall
    /\ UNCHANGED <<todo, got, phase, orchVars>>

\* get_stock_price: the request is sent.
GPriceCall(t) ==
    /\ tpc[t] = "price_delay"
    /\ rem[t] = 0
    /\ StartCall
    /\ tpc' = [tpc EXCEPT ![t] = "price_wait"]
    /\ NoStamp
    /\ UNCHANGED <<global_lock, rem, todo, got, phase, orchVars>>

\* get_stock_price returns: no price ends the extraction with an error
\* result; a price leads to search_form4_filings -> get_sec_filings, which
\* sleeps api_ninjas_delay before its request.
GPriceReturn(t) ==
    /\ tpc[t] = "price_wait"
    /\ \E price_found \in BOOLEAN :
         IF price_found
         THEN /\ tpc' = [tpc EXCEPT ![t] = "list_delay"]
              /\ rem' = [rem EXCEPT ![t] = api_ninjas_delay]
         ELSE /\ tpc' = [tpc EXCEPT ![t] = "done"]
              /\ UNCHANGED rem
    /\ NoStamp /\ NoCall
    /\ UNCHANGED <<global_lock, todo, got, phase, orchVars>>

\* get_sec_filings: the request is sent.
GListCall(t) ==
    /\ tpc[t] = "list_delay"
    /\ rem[t] = 0
    /\ StartCall
    /\ tpc' = [tpc EXCEPT ![t] = "list_wait"]
    /\ NoStamp
    /\ UNCHANGED <<global_lock, rem, todo, got, phase, orchVars>>

\* get_sec_filings returns n filings; none ends the extraction, otherwise
\* search_form4_filings downloads each of them, and download_filing_content
\* sleeps 2.0 s before each request.
GListReturn(t) ==
    /\ tpc[t] = "list_wait"
    /\ \E n \in 0..MaxFilings :
         IF n = 0
         THEN /\ tpc' = [tpc EXCEPT ![t] = "done"]
              /\ UNCHANGED <<rem, todo, got, phase>>
         ELSE /\ tpc' = [tpc EXCEPT ![t] = "dl_delay"]
              /\ rem' = [rem EXCEPT ![t] = sec_download_delay]
              /\ todo' = [todo EXCEPT ![t] = n]
              /\ got' = [got EXCEPT ![t] = 0]
              /\ phase' = [phase EXCEPT ![t] = 1]
    /\ NoStamp /\ NoCall
    /\ UNCHANGED <<global_lock, orchVars>>

\* download_filing_content: after time.sleep(2.0) the request is sent.
GDownloadCall(t) ==
    /\ tpc[t] = "dl_delay"
    /\ rem[t] = 0
    /\ StartCall
    /\ tpc' = [tpc EXCEPT ![t] = "dl_wait"]
    /\ NoStamp
    /\ UNCHANGED <<global_lock, rem, todo, got, phase, orchVars>>

\* download_filing_content returns the text or None.  In
\* search_form4_filings (phase 1) the filings with content are kept; then
\* extract_from_ticker (phase 2) downloads each kept filing again, analyses
\* it, and returns its result.
GDownloadReturn(t) ==
    /\ tpc[t] = "dl_wait"
    /\ \E content \in BOOLEAN :
         LET kept == IF phase[t] = 1 /\ content THEN got[t] + 1 ELSE got[t] IN
         IF todo[t] > 1
         THEN /\ todo' = [todo EXCEPT ![t] = todo[t] - 1]
              /\ got' = [got EXCEPT ![t] = kept]
              /\ rem' = [rem EXCEPT ![t] = sec_download_delay]
              /\ tpc' = [tpc EXCEPT ![t] = "dl_delay"]
              /\ UNCHANGED phase
         ELSE IF phase[t] = 1 /\ kept > 0
         THEN /\ todo' = [todo EXCEPT ![t] = kept]
              /\ got' = [got EXCEPT ![t] = 0]
              /\ phase' = [phase EXCEPT ![t] = 2]
              /\ rem' = [rem EXCEPT ![t] = sec_download_delay]
              /\ tpc' = [tpc EXCEPT ![t] = "dl_delay"]
         ELSE /\ todo' = [todo EXCEPT ![t] = 0]
              /\ got' = [got EXCEPT ![t] = 0]
              /\ phase' = [phase EXCEPT ![t] = 0]
              /\ tpc' = [tpc EXCEPT ![t] = "done"]
              /\ UNCHANGED rem
    /\ NoStamp /\ NoCall
    /\ UNCHANGED <<global_lock, orchVars>>

\* Half a second passes: every running sleep and every clock difference
\* moves on.  Differences saturate where the code no longer tells them apart.
Tick ==
    /\ rem' = [t \in TickerSet |-> IF rem[t] > 0 THEN rem[t] - 1 ELSE 0]
    /\ since_grant' = IF granted THEN Min(since_grant + 1, global_min_request_interval) ELSE since_grant
    /\ since_call' = IF n_calls > 0 THEN Min(since_call + 1, global_min_request_interval) ELSE since_call
    /\ <<rem, since_grant, since_call>>' # <<rem, since_grant, since_call>>
    /\ UNCHANGED <<poolVars, orchVars, granted, todo, got, phase, n_grants, grant_gap, n_calls, call_gap>>

(***************************************************************************)
(* Results of extract_from_ticker and of process_ticker.  A result dict is *)
(* modelled by the keys the batch processor reads: psu_targets (here the   *)
(* number of validated targets), furthest_target_upside, rejection_reason  *)
(* ("" when the key is absent), error and retry_failed.                    *)
(***************************************************************************)
NoReason == ""

RawReason == "Only 1 unique target(s) found - minimum 2 required"

ValidReason == "Only 1 valid target(s) after validation - minimum 2 required"

\* The same two reasons for no target at all.
RawReasonNone == "Only 0 unique target(s) found - minimum 2 required"

ValidReasonNone == "Only 0 valid target(s) after validation - minimum 2 required"

\* Lines 299 and 324: the f-strings with the number of targets, n < 2.
RawReasonOf(n) == IF n = 1 THEN RawReason ELSE RawReasonNone

ValidReasonOf(n) == IF n = 1 THEN ValidReason ELSE ValidReasonNone

\* extract_from_ticker, lines 344-356: at least two validated targets.
SuccessResult(t, upside) ==
    [ticker |-> t, psu_targets |-> 2, furthest_target_upside |-> upside,
     rejection_reason |-> NoReason, error |-> FALSE, retry_failed |-> FALSE]

\* extract_from_ticker, lines 285-300 and 310-325: a rejection.
RejectionResult(t, reason) ==
    [ticker |-> t, psu_targets |-> 0, furthest_target_upside |-> 0,
     rejection_reason |-> reason, error |-> FALSE, retry_failed |-> FALSE]

\* extract_from_ticker, lines 177-191: no price (error message), and
\* lines 200-213: no filings (no error, no rejection reason).
FailureResult(t, has_error) ==
    [ticker |-> t, psu_targets |-> 0, furthest_target_upside |-> 0,
     rejection_reason |-> NoReason, error |-> has_error, retry_failed |-> FALSE]

\* _create_error_result: the result of exhausted retries.
ErrorResult(t) ==
    [ticker |-> t, psu_targets |-> 0, furthest_target_upside |-> 0,
     rejection_reason |-> NoReason, error |-> TRUE, retry_failed |-> TRUE]

NoResult ==
    [ticker |-> NoTicker, psu_targets |-> 0, furthest_target_upside |-> 0,
     rejection_reason |-> NoReason, error |-> FALSE, retry_failed |-> FALSE]

\* Every result extract_from_ticker can return for ticker t.  It catches
\* every Exception itself (line 358), so it returns and never raises.
\* The furthest upside of a success is taken on both sides of the 40 %
\* threshold.
ExtractResults(t) ==
    {SuccessResult(t, 41), SuccessResult(t, 40),
     RejectionResult(t, RawReason), RejectionResult(t, ValidReason),
     FailureResult(t, TRUE), FailureResult(t, FALSE)}

\* process_ticker, line 366: 'Only 1 unique target' in rejection_reason or
\* 'Only 0 unique target' in rejection_reason.
IsSingleTargetReason(reason) == reason \in {RawReason, RawReasonNone}

\* The terminal state a result stands for: the branch process_ticker takes
\* on it (lines 350, 363, 374).
TerminalState(r) ==
    IF r.psu_targets > 0 THEN "SUCCEEDED"
    ELSE IF r.rejection_reason # NoReason THEN "REJECTED"
    ELSE "FAILED_PERMANENT"

\* The state of ticker t's task in the executor.
Status(t) ==
    IF tpc[t] = "done" THEN TerminalState(future[t])
    ELSE IF tpc[t] \in {"new", "pending"} THEN IF tpc[t] = "new" THEN "NEW" ELSE "PENDING"
    ELSE "RUNNING"

(***************************************************************************)
(* The shared state: counters and result lists.                            *)
(***************************************************************************)
\* __init__, lines 36-54.
EmptyState ==
    [stats |-> [processed_tickers |-> 0, successful_extractions |-> 0,
                failed_extractions |-> 0, single_target_rejections |-> 0,
                api_ninjas_rate_limits |-> 0, sec_rate_limits |-> 0,
                retry_attempts |-> 0, retry_successes |-> 0,
                permanent_failures |-> 0],
     results |-> <<>>, high_upside_results |-> <<>>, low_upside_results |-> <<>>]

Shared ==
    [stats |-> stats, results |-> results,
     high_upside_results |-> high_upside_results,
     low_upside_results |-> low_upside_results]

\* A mutant of Bump: the increment is lost.
BumpLost(st, key) == st

\* A mutant of Bump: the counter goes down.
BumpDown(st, key) == [st EXCEPT ![key] = @ - 1]

\* self.stats[key] += 1
Bump(st, key) == [st EXCEPT ![key] = @ + 1]

\* Mutants of Aggregate: the processed counter is bumped only in the
\* branches that record a result; a success is not put in a bucket list.
AggregateCountsRecordedOnly(S, r) ==
    IF r.psu_targets > 0 THEN
        [S EXCEPT !.stats = Bump(Bump(@, "processed_tickers"), "successful_extractions"),
                  !.results = Append(@, r),
                  !.high_upside_results = IF r.furthest_target_upside > 40 THEN Append(@, r) ELSE @,
                  !.low_upside_results = IF r.furthest_target_upside > 40 THEN @ ELSE Append(@, r)]
    ELSE IF r.retry_failed THEN
        [S EXCEPT !.stats = Bump(Bump(@, "processed_tickers"), "failed_extractions"),
                  !.results = Append(@, r)]
    ELSE IF r.rejection_reason # NoReason THEN S
    ELSE [S EXCEPT !.stats = Bump(Bump(@, "processed_tickers"), "failed_extractions")]

AggregateNoBucket(S, r) ==
    LET P == [S EXCEPT !.stats = Bump(@, "processed_tickers")] IN
    IF r.psu_targets > 0 THEN
        [P EXCEPT !.stats = Bump(@, "successful_extractions"),
                  !.results = Append(@, r)]
    ELSE IF r.retry_failed THEN
        [P EXCEPT !.stats = Bump(@, "failed_extractions"),
                  !.results = Append(@, r)]
    ELSE IF r.rejection_reason # NoReason THEN P
    ELSE [P EXCEPT !.stats = Bump(@, "failed_extractions")]

\* A mutant of Aggregate: a rejection is counted as a failed extraction.
AggregateRejectionFailed(S, r) ==
    LET P == [S EXCEPT !.stats = Bump(@, "processed_tickers")] IN
    IF r.psu_targets > 0 THEN
        [P EXCEPT !.stats = Bump(@, "successful_extractions"),
                  !.results = Append(@, r),
                  !.high_upside_results = IF r.furthest_target_upside > 40 THEN Append(@, r) ELSE @,
                  !.low_upside_results = IF r.furthest_target_upside > 40 THEN @ ELSE Append(@, r)]
    ELSE IF r.retry_failed THEN
        [P EXCEPT !.stats = Bump(@, "failed_extractions"),
                  !.results = Append(@, r)]
    ELSE [P EXCEPT !.stats = Bump(@, "failed_extractions")]

\* A mutant of Aggregate: an upside of exactly 40 goes to the high list.
AggregateThresholdInclusive(S, r) ==
    LET P == [S EXCEPT !.stats = Bump(@, "processed_tickers")] IN
    IF r.psu_targets > 0 THEN
        [P EXCEPT !.stats = Bump(@, "successful_extractions"),
                  !.results = Append(@, r),
                  !.high_upside_results = IF r.furthest_target_upside >= 40 THEN Append(@, r) ELSE @,
                  !.low_upside_results = IF r.furthest_target_upside >= 40 THEN @ ELSE Append(@, r)]
    ELSE IF r.retry_failed THEN
        [P EXCEPT !.stats = Bump(@, "failed_extractions"),
                  !.results = Append(@, r)]
    ELSE IF r.rejection_reason # NoReason THEN P
    ELSE [P EXCEPT !.stats = Bump(@, "failed_extractions")]

\* process_all_tickers_parallel, lines 510-539: the update made under
\* results_lock for one completed future.
Aggregate(S, r) ==
    LET P == [S EXCEPT !.stats = Bump(@, "processed_tickers")] IN
    IF r.psu_targets > 0 THEN
        [P EXCEPT !.stats = Bump(@, "successful_extractions"),
                  !.results = Append(@, r),
                  !.high_upside_results = IF r.furthest_target_upside > 40 THEN Append(@, r) ELSE @,
                  !.low_upside_results = IF r.furthest_target_upside > 40 THEN @ ELSE Append(@, r)]
    ELSE IF r.retry_failed THEN
        [P EXCEPT !.stats = Bump(@, "failed_extractions"),
                  !.results = Append(@, r)]
    ELSE IF r.rejection_reason # NoReason THEN P
    ELSE [P EXCEPT !.stats = Bump(@, "failed_extractions")]

\* The branch of lines 516-539 taken for a result.
AggregatedAs(r) ==
    IF r.psu_targets > 0 THEN "SUCCEEDED"
    ELSE IF r.retry_failed THEN "FAILED_PERMANENT"
    ELSE IF r.rejection_reason # NoReason THEN "REJECTED"
    ELSE "FAILED_PERMANENT"

(***************************************************************************)
(* The progress file.                                                      *)
(***************************************************************************)
\* No file, a file just truncated by open(..., 'w'), a file json.dump has
\* written in part (the stats, not yet the lists), and a complete record.
FileOf(kind, S) == [kind |-> kind, data |-> S]

AbsentFile == FileOf("absent", EmptyState)

Frames == {"main", "handler"}

\* The frame of the main thread that is executing.
Running(f) ==
    /\ proc = "running"
    /\ IF f = "handler" THEN pc["handler"] # "none" ELSE pc["handler"] = "none"

\* The main frame stands inside `with ThreadPoolExecutor(...) as executor`.
InPoolBlock ==
    \/ pc["main"] \in {"collect", "agg"}
    \/ pc["main"] \in {"save_snapshot", "save_open", "save_stats", "save_lists"}
       /\ save_ctx = "periodic"

\* A frame of the main thread stands between the snapshot of save_progress
\* and the end of its json.dump.
SaveInProgress ==
    \E f \in Frames : pc[f] \in {"save_open", "save_stats", "save_lists"}

\* A mutant of DumpedState: the record is closed without the lists.
DumpedStateNoLists(live, stats_written) == [EmptyState EXCEPT !.stats = stats_written]

\* The record json.dump has written when it ends: the stats it wrote first
\* and the three lists as they are when it reaches them.
DumpedState(live, stats_written) == [live EXCEPT !.stats = stats_written]

(***************************************************************************)
(* Pool threads: process_ticker, without time.                             *)
(***************************************************************************)
\* A pool thread takes the next work item, so the task is RUNNING, and
\* process_ticker passes the gate of lines 329-338 (SpecGate follows that
\* section step by step; it touches nothing but last_global_request).
\* The network calls of extract_from_ticker follow.
Take(t) ==
    /\ proc = "running"
    /\ NextPending(t)
    /\ PoolHasIdleThread
    /\ global_lock = NoTicker
    /\ tpc' = [tpc EXCEPT ![t] = "extract"]
    /\ UNCHANGED <<global_lock, gateVars, orchVars>>

\* process_ticker returns r: the future of the task is set and
\* as_completed will yield it.
Return(t, r) ==
    /\ future' = [future EXCEPT ![t] = r]
    /\ done_q' = Append(done_q, t)
    /\ tresult' = [tresult EXCEPT ![t] = NoResult]
    /\ tpc' = [tpc EXCEPT ![t] = "done"]

\* Lines 342-378: extract_from_ticker returns r.  A rejection with a
\* single-target reason has its counter bumped under global_lock first;
\* every other result is returned at once.
Extract(t) ==
    /\ proc = "running"
    /\ tpc[t] = "extract"
    /\ \E r \in ExtractResults(t) :
         IF r.psu_targets = 0 /\ r.rejection_reason # NoReason
            /\ IsSingleTargetReason(r.rejection_reason)
         THEN /\ tresult' = [tresult EXCEPT ![t] = r]
              /\ tpc' = [tpc EXCEPT ![t] = "count_rejection"]
              /\ UNCHANGED <<future, done_q>>
         ELSE Return(t, r)
    /\ UNCHANGED <<global_lock, gateVars, proc, pc, save_ctx, results_lock, cur, i,
                   stats, results, high_upside_results, low_upside_results, file,
                   main_output, signalled, handler_saved, aggregated, seen, run, loaded, saves, pureVars,
                   arg_max_workers, textVars, validVars, rt_msgs, fetchVars, loopVars>>

\* Lines 368-372: with self.global_lock: stats['single_target_rejections'] += 1
CountRejection(t) ==
    /\ proc = "running"
    /\ tpc[t] = "count_rejection"
    /\ global_lock = NoTicker
    /\ stats' = Bump(stats, "single_target_rejections")
    /\ seen' = IF SaveInProgress
               THEN seen \cup {[Shared EXCEPT !.stats = Bump(stats, "single_target_rejections")]}
               ELSE seen
    /\ Return(t, tresult[t])
    /\ UNCHANGED <<global_lock, gateVars, proc, pc, save_ctx, results_lock, cur, i,
                   results, high_upside_results, low_upside_results, file,
                   main_output, signalled, handler_saved, aggregated, run, loaded, saves, pureVars,
                   arg_max_workers, textVars, validVars, rt_msgs, fetchVars, loopVars>>

(***************************************************************************)
(* The main thread: process_all_tickers_parallel.                          *)
(***************************************************************************)
\* Lines 468-500: load the tickers, create the pool, submit every ticker.
Submit ==
    /\ Running("main")
    /\ pc["main"] = "start"
    /\ tpc' = [t \in TickerSet |-> "pending"]
    /\ pc' = [pc EXCEPT !["main"] = "collect"]
    /\ UNCHANGED <<global_lock, gateVars, proc, save_ctx, results_lock,
                   future, done_q, tresult, cur, i, stats, results,
                   high_upside_results, low_upside_results, file, main_output,
                   signalled, handler_saved, aggregated, seen, run, loaded, saves, pureVars,
                   arg_max_workers, textVars, validVars, rt_msgs, fetchVars, loopVars>>

\* Lines 503-510: as_completed yields the next completed future, its result
\* is taken and results_lock is acquired.
Collect ==
    /\ Running("main")
    /\ pc["main"] = "collect"
    /\ done_q # <<>>
    /\ results_lock = "free"
    /\ cur' = Head(done_q)
    /\ done_q' = Tail(done_q)
    /\ results_lock' = "main"
    /\ pc' = [pc EXCEPT !["main"] = "agg"]
    /\ UNCHANGED <<poolVars, gateVars, proc, save_ctx, future, tresult, i, stats,
                   results, high_upside_results, low_upside_results, file,
                   main_output, signalled, handler_saved, aggregated, seen, run, loaded, saves, pureVars,
                   arg_max_workers, textVars, validVars, rt_msgs, fetchVars, loopVars>>

\* A mutant of SaveDue: no periodic save.
SaveDueNever(k) == FALSE

\* Line 541: `if (i + 1) % 10 == 0`, k being the number of futures the
\* loop has handled.
SaveDue(k) == k % save_every = 0

\* Lines 511-544: the update under results_lock, the release, and the
\* cadence test on enumerate's index.
AggUpdate ==
    /\ Running("main")
    /\ pc["main"] = "agg"
    /\ LET S == Aggregate(Shared, future[cur]) IN
         /\ stats' = S.stats
         /\ results' = S.results
         /\ high_upside_results' = S.high_upside_results
         /\ low_upside_results' = S.low_upside_results
    /\ results_lock' = "free"
    /\ aggregated' = [aggregated EXCEPT ![cur] = @ + 1]
    /\ i' = i + 1
    /\ IF SaveDue(i + 1)
       THEN /\ pc' = [pc EXCEPT !["main"] = "save_snapshot"]
            /\ save_ctx' = "periodic"
       ELSE /\ pc' = [pc EXCEPT !["main"] = "collect"]
            /\ UNCHANGED save_ctx
    /\ UNCHANGED <<poolVars, gateVars, proc, future, done_q, tresult, cur, file,
                   main_output, signalled, handler_saved, seen, run, loaded, saves, pureVars,
                   arg_max_workers, textVars, validVars, rt_msgs, fetchVars, loopVars>>

\* Lines 503, 555-557: every future has been yielded; the pool is shut
\* down (its threads have no work left) and the final save starts.
EndLoop ==
    /\ Running("main")
    /\ pc["main"] = "collect"
    /\ i = NumTickers
    /\ pc' = [pc EXCEPT !["main"] = "save_snapshot"]
    /\ save_ctx' = "final"
    /\ UNCHANGED <<poolVars, gateVars, proc, results_lock, future, done_q, tresult,
                   cur, i, stats, results, high_upside_results, low_upside_results,
                   file, main_output, signalled, handler_saved, aggregated, seen, run, loaded, saves, pureVars,
                   arg_max_workers, textVars, validVars, rt_msgs, fetchVars, loopVars>>

(***************************************************************************)
(* save_progress (lines 105-122), run by frame f of the main thread.       *)
(***************************************************************************)
\* Lines 108-115: under results_lock, progress_data is built.  It holds
\* references to self.stats and to the lists, no copies.
SaveSnapshot(f) ==
    /\ Running(f)
    /\ pc[f] = "save_snapshot"
    /\ results_lock = "free"
    /\ seen' = {Shared}
    /\ pc' = [pc EXCEPT ![f] = "save_open"]
    /\ UNCHANGED <<poolVars, gateVars, proc, save_ctx, results_lock, future, done_q,
                   tresult, cur, i, stats, results, high_upside_results,
                   low_upside_results, file, main_output, signalled, handler_saved,
                   aggregated, run, loaded, saves, pureVars,
                   arg_max_workers, textVars, validVars, rt_msgs, fetchVars, loopVars>>

\* Line 117: open(self.progress_file, 'w') truncates the file.
SaveOpen(f) ==
    /\ Running(f)
    /\ pc[f] = "save_open"
    /\ file' = FileOf("empty", EmptyState)
    /\ pc' = [pc EXCEPT ![f] = "save_stats"]
    /\ UNCHANGED <<poolVars, gateVars, proc, save_ctx, results_lock, future, done_q,
                   tresult, cur, i, stats, results, high_upside_results,
                   low_upside_results, main_output, signalled, handler_saved,
                   aggregated, seen, run, loaded, saves, pureVars,
                   arg_max_workers, textVars, validVars, rt_msgs, fetchVars, loopVars>>

\* Line 118: json.dump writes chunk by chunk; first the 'stats' dict, whose
\* values are read from self.stats as they are now.  The dict is read in
\* one step: while a save runs the main thread changes nothing, and a pool
\* thread changes one counter only (single_target_rejections), so reading
\* the keys one by one gives the dict of the instant that counter is read.
SaveStats(f) ==
    /\ Running(f)
    /\ pc[f] = "save_stats"
    /\ file' = FileOf("partial", [EmptyState EXCEPT !.stats = stats])
    /\ pc' = [pc EXCEPT ![f] = "save_lists"]
    /\ UNCHANGED <<poolVars, gateVars, proc, save_ctx, results_lock, future, done_q,
                   tresult, cur, i, stats, results, high_upside_results,
                   low_upside_results, main_output, signalled, handler_saved,
                   aggregated, seen, run, loaded, saves, pureVars,
                   arg_max_workers, textVars, validVars, rt_msgs, fetchVars, loopVars>>

\* Line 118, the rest: the three lists and the timestamp; the file is
\* closed.  save_progress returns to its caller: the loop (line 543), or a
\* caller that saves the results next (lines 80, 558, 713).
SaveLists(f) ==
    /\ Running(f)
    /\ pc[f] = "save_lists"
    /\ file' = FileOf("complete", DumpedState(Shared, file.data.stats))
    /\ pc' = [pc EXCEPT ![f] =
                IF f = "handler" \/ save_ctx \in {"final", "fatal"} THEN "save_results"
                ELSE "collect"]
    /\ handler_saved' = (handler_saved \/ f = "handler")
    /\ saves' = Append(saves, file.data.stats.processed_tickers)
    /\ UNCHANGED <<poolVars, gateVars, proc, save_ctx, results_lock, future, done_q,
                   tresult, cur, i, stats, results, high_upside_results,
                   low_upside_results, main_output, signalled, aggregated, seen, run, loaded, pureVars,
                   arg_max_workers, textVars, validVars, rt_msgs, fetchVars, loopVars>>

\* save_results (lines 124-227): the main result file holds self.results.
\* The handler goes on to sys.exit(0), the main frame to print_final_stats,
\* or, in main's exception handler (lines 710-713), to the end of main.
SaveResults(f) ==
    /\ Running(f)
    /\ pc[f] = "save_results"
    /\ main_output' = results
    /\ pc' = [pc EXCEPT ![f] = IF f = "handler" THEN "exit"
                                ELSE IF save_ctx = "fatal" THEN "done"
                                ELSE "final_stats"]
    /\ UNCHANGED <<poolVars, gateVars, proc, save_ctx, results_lock, future, done_q,
                   tresult, cur, i, stats, results, high_upside_results,
                   low_upside_results, file, signalled, handler_saved, aggregated,
                   seen, run, loaded, saves, pureVars,
                   arg_max_workers, textVars, validVars, rt_msgs, fetchVars, loopVars>>

\* print_final_stats (lines 563-627) saves the results once more; then
\* process_all_tickers_parallel and main return.
FinalStats ==
    /\ Running("main")
    /\ pc["main"] = "final_stats"
    /\ main_output' = results
    /\ pc' = [pc EXCEPT !["main"] = "done"]
    /\ proc' = "exited"
    /\ UNCHANGED <<poolVars, gateVars, save_ctx, results_lock, future, done_q,
                   tresult, cur, i, stats, results, high_upside_results,
                   low_upside_results, file, signalled, handler_saved, aggregated,
                   seen, run, loaded, saves, pureVars,
                   arg_max_workers, textVars, validVars, rt_msgs, fetchVars, loopVars>>

(***************************************************************************)
(* Signals and the end of the process.                                     *)
(***************************************************************************)
\* SIGINT or SIGTERM: Python runs signal_handler (lines 75-81) in the main
\* thread, on top of whatever the main thread was doing.
Signal ==
    /\ proc = "running"
    /\ ~signalled
    /\ signalled' = TRUE
    /\ pc' = [pc EXCEPT !["handler"] = "save_snapshot"]
    /\ UNCHANGED <<poolVars, gateVars, proc, save_ctx, results_lock, future, done_q,
                   tresult, cur, i, stats, results, high_upside_results,
                   low_upside_results, file, main_output, handler_saved, aggregated,
                   seen, run, loaded, saves, pureVars,
                   arg_max_workers, textVars, validVars, rt_msgs, fetchVars, loopVars>>

\* Line 81: sys.exit(0) raises SystemExit in the main thread.  Raised inside
\* the `with ThreadPoolExecutor` block it runs the executor's __exit__,
\* shutdown(wait=True), which waits for every submitted task; raised outside
\* it ends the process.
HandlerExit ==
    /\ Running("handler")
    /\ pc["handler"] = "exit"
    /\ IF InPoolBlock
       THEN /\ pc' = [pc EXCEPT !["handler"] = "drain"]
            /\ UNCHANGED proc
       ELSE /\ pc' = [pc EXCEPT !["handler"] = "done"]
            /\ proc' = "exited"
    /\ UNCHANGED <<poolVars, gateVars, save_ctx, results_lock, future, done_q,
                   tresult, cur, i, stats, results, high_upside_results,
                   low_upside_results, file, main_output, signalled, handler_saved,
                   aggregated, seen, run, loaded, saves, pureVars,
                   arg_max_workers, textVars, validVars, rt_msgs, fetchVars, loopVars>>

\* shutdown(wait=True) returns once the queue is empty and every worker
\* thread has ended; SystemExit then ends the process.
Drain ==
    /\ Running("handler")
    /\ pc["handler"] = "drain"
    /\ \A t \in TickerSet : tpc[t] = "done"
    /\ pc' = [pc EXCEPT !["handler"] = "done"]
    /\ proc' = "exited"
    /\ UNCHANGED <<poolVars, gateVars, save_ctx, results_lock, future, done_q,
                   tresult, cur, i, stats, results, high_upside_results,
                   low_upside_results, file, main_output, signalled, handler_saved,
                   aggregated, seen, run, loaded, saves, pureVars,
                   arg_max_workers, textVars, validVars, rt_msgs, fetchVars, loopVars>>

\* The process is stopped from outside (SIGKILL, power loss) at any point:
\* its memory is gone, the progress file stays as it is.
Kill ==
    /\ proc = "running"
    /\ proc' = "killed"
    /\ tpc' = [t \in TickerSet |-> "new"]
    /\ global_lock' = NoTicker
    /\ pc' = [f \in Frames |-> "none"]
    /\ save_ctx' = "none"
    /\ results_lock' = "free"
    /\ future' = [t \in TickerSet |-> NoResult]
    /\ done_q' = <<>>
    /\ tresult' = [t \in TickerSet |-> NoResult]
    /\ cur' = NoTicker
    /\ i' = 0
    /\ stats' = EmptyState.stats
    /\ results' = <<>>
    /\ high_upside_results' = <<>>
    /\ low_upside_results' = <<>>
    /\ aggregated' = [t \in TickerSet |-> 0]
    /\ saves' = <<>>
    /\ UNCHANGED <<gateVars, file, main_output, signalled, handler_saved, seen, run, loaded, pureVars,
                   arg_max_workers, textVars, validVars, rt_msgs, fetchVars, loopVars>>

(***************************************************************************)
(* A restart: the operator runs the program again.                         *)
(***************************************************************************)
\* A mutant of LoadProgress: whatever the file holds is taken.
LoadProgressTrusting(f) == f.data

\* load_progress (lines 83-103): a progress file that parses replaces the
\* counters and the lists; a missing file, or one json.load rejects (an
\* empty or half-written file), leaves the state of __init__.
LoadProgress(f) == IF f.kind = "complete" THEN f.data ELSE EmptyState

\* The tickers that have a result in a result list.
TickersOf(list) == {list[k].ticker : k \in 1..Len(list)}

\* A new process: __init__ (lines 26-73) with load_progress, then main calls
\* process_all_tickers_parallel with the same ticker file.
Restart ==
    /\ proc \in {"exited", "killed"}
    /\ run < MaxRuns
    /\ run' = run + 1
    /\ proc' = "running"
    /\ LET L == LoadProgress(file) IN
         /\ stats' = L.stats
         /\ results' = L.results
         /\ high_upside_results' = L.high_upside_results
         /\ low_upside_results' = L.low_upside_results
         /\ loaded' = TickersOf(L.results)
    /\ tpc' = [t \in TickerSet |-> "new"]
    /\ global_lock' = NoTicker
    /\ pc' = [f \in Frames |-> IF f = "main" THEN "start" ELSE "none"]
    /\ save_ctx' = "none"
    /\ results_lock' = "free"
    /\ future' = [t \in TickerSet |-> NoResult]
    /\ done_q' = <<>>
    /\ tresult' = [t \in TickerSet |-> NoResult]
    /\ cur' = NoTicker
    /\ i' = 0
    /\ signalled' = FALSE
    /\ handler_saved' = FALSE
    /\ aggregated' = [t \in TickerSet |-> 0]
    /\ saves' = <<>>
    /\ UNCHANGED <<gateVars, file, main_output, seen, pureVars,
                   arg_max_workers, textVars, validVars, rt_msgs, fetchVars, loopVars>>

InitPool ==
    /\ global_lock = NoTicker

InitGateVars ==
    /\ rem = [t \in TickerSet |-> 0]
    /\ granted = FALSE
    /\ since_grant = 0
    /\ todo = [t \in TickerSet |-> 0]
    /\ got = [t \in TickerSet |-> 0]
    /\ phase = [t \in TickerSet |-> 0]
    /\ n_grants = 0
    /\ grant_gap = global_min_request_interval
    /\ n_calls = 0
    /\ since_call = 0
    /\ call_gap = global_min_request_interval

\* The fields __init__ sets whatever the progress file holds (lines 36-63),
\* and the observers of the model.
InitData ==
    /\ save_ctx = "none"
    /\ results_lock = "free"
    /\ future = [t \in TickerSet |-> NoResult]
    /\ done_q = <<>>
    /\ tresult = [t \in TickerSet |-> NoResult]
    /\ cur = NoTicker
    /\ i = 0
    /\ stats = EmptyState.stats
    /\ results = <<>>
    /\ high_upside_results = <<>>
    /\ low_upside_results = <<>>
    /\ main_output = <<>>
    /\ signalled = FALSE
    /\ handler_saved = FALSE
    /\ aggregated = [t \in TickerSet |-> 0]
    /\ seen = {}
    /\ run = 1
    /\ loaded = {}
    /\ saves = <<>>

\* The process after ParallelBatchProcessor.__init__ with no progress file.
InitOrch ==
    /\ InitData
    /\ proc = "running"
    /\ pc = [f \in Frames |-> IF f = "main" THEN "start" ELSE "none"]
    /\ file = AbsentFile

\* No call of extract_from_ticker is followed on its own.
InitNoExtract ==
    /\ xprice = 0
    /\ xfilings = <<>>
    /\ xresult = NoResult

\* No task has entered its retry loop.
InitNoLoop ==
    /\ n_extract = [t \in TickerSet |-> 0]
    /\ n_gate = [t \in TickerSet |-> 0]
    /\ terr = [t \in TickerSet |-> "none"]

\* No filing content is followed.
InitNoFetch ==
    /\ InitNoLoop
    /\ sf_n = 0
    /\ sf_pc = "none"
    /\ sf_k = 1
    /\ filings_with_content = <<>>
    /\ sf_content = 0
    /\ fetched = <<>>
    /\ analysed = <<>>

\* No call of process_ticker is followed on its own.
InitNoRetry ==
    /\ InitNoFetch
    /\ errs = <<>>
    /\ rt_pc = "none"
    /\ rt_result = NoResult
    /\ rt_sleeps = <<>>
    /\ rt_msgs = <<>>

InitPure == InitNoExtract /\ InitNoRetry

\* The processor is constructed as run_all_tickers.py does (lines 79-83),
\* with max_workers=1.
InitArgs == arg_max_workers = 1

\* No call of validate_psu_targets is looked at.
InitNoValidate ==
    /\ vtargets = <<>>
    /\ vprice = 0
    /\ vdone = FALSE
    /\ vvalid = <<>>

\* No call of extract_psu_price_targets is followed on its own.
InitNoText ==
    /\ ftext = <<>>
    /\ fdone = FALSE
    /\ ftargets = {}
    /\ flist = <<>>
    /\ InitNoValidate

\* SpecGate starts where the pool has been handed every ticker (line 500).
InitGate ==
    InitPool /\ tpc = [t \in TickerSet |-> "pending"] /\ InitGateVars /\ InitOrch /\ InitPure /\ InitArgs /\ InitNoText

Init == InitPool /\ tpc = [t \in TickerSet |-> "new"] /\ InitGateVars /\ InitOrch /\ InitPure /\ InitArgs /\ InitNoText

GWorker(t) ==
    \/ GTake(t)
    \/ GGateEnter(t)
    \/ GGateStamp(t)
    \/ GPriceCall(t)
    \/ GPriceReturn(t)
    \/ GListCall(t)
    \/ GListReturn(t)
    \/ GDownloadCall(t)
    \/ GDownloadReturn(t)

NextGate == Tick \/ \E t \in TickerSet : GWorker(t)

SpecGate == InitGate /\ [][NextGate]_vars

(***************************************************************************)
(* The gate together with the counter process_ticker updates under         *)
(* global_lock (lines 363-372).                                            *)
(***************************************************************************)
\* The last download of extract_from_ticker returns and the extraction
\* ends with a rejection for fewer than two unique targets (psu_extractor,
\* lines 283-300); process_ticker goes on to count it.
GRejection(t) ==
    /\ tpc[t] = "dl_wait"
    /\ phase[t] = 2
    /\ todo[t] = 1
    /\ tpc' = [tpc EXCEPT ![t] = "count_rejection"]
    /\ todo' = [todo EXCEPT ![t] = 0]
    /\ got' = [got EXCEPT ![t] = 0]
    /\ phase' = [phase EXCEPT ![t] = 0]
    /\ NoStamp /\ NoCall
    /\ UNCHANGED <<global_lock, rem, orchVars>>

\* Lines 368-372: with self.global_lock: stats['single_target_rejections'] += 1,
\* and process_ticker returns.
GCountRejection(t) ==
    /\ tpc[t] = "count_rejection"
    /\ global_lock = NoTicker
    /\ stats' = Bump(stats, "single_target_rejections")
    /\ tpc' = [tpc EXCEPT ![t] = "done"]
    /\ UNCHANGED <<global_lock, gateVars, proc, pc, save_ctx, results_lock, future,
                   done_q, tresult, cur, i, results, high_upside_results,
                   low_upside_results, file, main_output, signalled, handler_saved,
                   aggregated, seen, run, loaded, saves, pureVars,
                   arg_max_workers, textVars, validVars, rt_msgs, fetchVars, loopVars>>

NextBlock ==
    \/ NextGate
    \/ \E t \in TickerSet : GRejection(t) \/ GCountRejection(t)

SpecBlock == InitGate /\ [][NextBlock]_vars

Worker(t) ==
    \/ Take(t)
    \/ Extract(t)
    \/ CountRejection(t)

MainThread ==
    \/ Submit
    \/ Collect
    \/ AggUpdate
    \/ EndLoop
    \/ FinalStats
    \/ HandlerExit
    \/ Drain
    \/ \E f \in Frames : SaveSnapshot(f) \/ SaveOpen(f) \/ SaveStats(f) \/ SaveLists(f) \/ SaveResults(f)

Next == MainThread \/ Signal \/ Kill \/ \E t \in TickerSet : Worker(t)

Spec == Init /\ [][Next]_vars

\* The scheduler runs every thread that can take a step: the main thread
\* (with the signal handler on top of it) and the tasks of the pool.  No
\* signal and no kill has to come.
FairSpec ==
    /\ Spec
    /\ WF_vars(MainThread)
    /\ \A t \in TickerSet : WF_vars(Worker(t))

\* The program with restarts.
NextRestart == Next \/ Restart

SpecRestart == Init /\ [][NextRestart]_vars

(***************************************************************************)
(* extract_from_ticker (psu_extractor_api_ninjas.py, lines 167-372) as a   *)
(* function of what the price service and the filing service answer.       *)
(* Prices and targets are whole dollars.                                   *)
(***************************************************************************)
\* get_stock_price: 0 stands for no price (None), 10 for a price of $10.
Prices == {0, 10}

\* The targets extract_psu_price_targets finds, all within its $5-$500
\* filter: below the price, 10 %, 40 %, 50 % and 1900 % above it.
TargetValues == {8, 11, 14, 15, 200}

\* What the SEC site answers when a filing's content is requested: the
\* document, a timeout, a rate-limit answer (status 429), another error.
FetchResponses == {"ok", "timeout", "rate_limit", "error"}

\* The answers the spec calls transient failures.
TransientFailures == {"timeout", "rate_limit"}

\* download_filing_content (api_ninjas_client.py, lines 185-227): TRUE for
\* the text of the document; on status 429 and in both except clauses it
\* sleeps and returns None.
DownloadFilingContent(response) == response = "ok"

\* A filing search_form4_filings has listed: the answer extract_from_ticker
\* gets when it downloads the content again (line 230), and the targets
\* extract_psu_price_targets finds in the content (a list without
\* duplicates, line 151).
Filings ==
    {[fetch |-> r, targets |-> {}] : r \in FetchResponses \ {"ok"}}
    \cup {[fetch |-> "ok", targets |-> T] : T \in SUBSET TargetValues}

\* The lists of at most ExtractFilings filings.
FilingLists == UNION {[1..n -> Filings] : n \in 0..ExtractFilings}

\* Line 161 divides in binary floating point.  For these targets and
\* prices, in cents, the upside is 10 % as a number and
\* (6.6 - 6.0) / 6.0 = 0.09999999999999994 as the code computes it;
RoundsBelowTenth == {<<660, 600>>}

\* for these it is 1000 % as a number and
\* (55.22 - 5.02) / 5.02 = 10.000000000000002 as the code computes it.
\* For the other targets and prices of the model the floating point
\* comparisons of line 162 give what the numbers give.
RoundsAboveTen == {<<5522, 502>>}

\* validate_psu_targets, lines 160-163, target and price in cents:
\* target > price and 0.1 <= (target - price) / price <= 10.0.
IsValidTarget(target, price) ==
    /\ target > price
    /\ 10 * (target - price) >= price /\ <<target, price>> \notin RoundsBelowTenth
    /\ target - price <= 10 * price /\ <<target, price>> \notin RoundsAboveTen

\* validate_psu_targets (lines 153-165) on targets and a price in whole
\* dollars.
ValidateTargets(targets, price) ==
    {x \in targets : IsValidTarget(100 * x, 100 * price)}

\* Lines 216-279: the targets of every filing whose content came, without
\* duplicates (set(all_targets)).
UniqueTargets(filings) ==
    UNION {filings[k].targets :
              k \in {j \in 1..Len(filings) : DownloadFilingContent(filings[j].fetch)}}

\* A mutant of MaxOf: the least target is taken.
MaxOfLeast(S) == CHOOSE x \in S : \A y \in S : x <= y

\* max(valid_targets)
MaxOf(S) == CHOOSE x \in S : \A y \in S : y <= x

\* Line 332: ((max(valid_targets) - current_price) / current_price) * 100.
FurthestUpside(valid, price) == ((MaxOf(valid) - price) * 100) \div price

\* Line 331: ((min(valid_targets) - current_price) / current_price) * 100.
NearestUpside(valid, price) == ((Least(valid) - price) * 100) \div price

\* Lines 344-356: the success with its n validated targets and its two
\* upsides.
SuccessWith(t, n, nearest, furthest) ==
    [ticker |-> t, psu_targets |-> n, nearest_target_upside |-> nearest,
     furthest_target_upside |-> furthest, rejection_reason |-> NoReason,
     error |-> FALSE, retry_failed |-> FALSE]

\* extract_from_ticker, lines 174-356.
ExtractFromTicker(t, price, filings) ==
    IF price = 0 THEN FailureResult(t, TRUE)
    ELSE IF filings = <<>> THEN FailureResult(t, FALSE)
    ELSE LET unique == UniqueTargets(filings)
             valid == ValidateTargets(unique, price)
         IN IF Cardinality(unique) < 2
            THEN RejectionResult(t, RawReasonOf(Cardinality(unique)))
            ELSE IF Cardinality(valid) < 2
            THEN RejectionResult(t, ValidReasonOf(Cardinality(valid)))
            ELSE SuccessWith(t, Cardinality(valid), NearestUpside(valid, price),
                             FurthestUpside(valid, price))

\* extract_from_ticker is called for the first ticker and returns.
ApplyExtract ==
    /\ xresult = NoResult
    /\ xresult' = ExtractFromTicker(Tickers[1], xprice, xfilings)
    /\ UNCHANGED <<poolVars, gateVars, proc, pc, save_ctx, results_lock, future,
                   done_q, tresult, cur, i, stats, results, high_upside_results,
                   low_upside_results, file, main_output, signalled, handler_saved,
                   aggregated, seen, run, loaded, saves, xprice, xfilings,
                   errs, rt_pc, rt_result, rt_sleeps,
                   arg_max_workers, textVars, validVars, rt_msgs, fetchVars, loopVars>>

\* The services' answers are drawn; the call has not returned.
InitExtract ==
    /\ InitArgs /\ InitNoText
    /\ InitPool /\ tpc = [t \in TickerSet |-> "new"] /\ InitGateVars /\ InitOrch
    /\ InitNoRetry
    /\ xprice \in Prices
    /\ xfilings \in FilingLists
    /\ xresult = NoResult

NextExtract == ApplyExtract

SpecExtract == InitExtract /\ [][NextExtract]_vars

(***************************************************************************)
(* validate_psu_targets (psu_extractor_api_ninjas.py, lines 153-165) on    *)
(* lists of targets in any order.  Prices and targets are in cents.        *)
(***************************************************************************)
\* The prices a call is made with: 5.02, 6.00 and 50.00.
ValidatePrices == {502, 600, 5000}

\* The targets of a call: 6.60, 10 % above 6.00; 55.22, 1000 % above 5.02;
\* and at a price of 50.00 below it, equal to it, 8 %, 10 %, 20 %, 1000 %
\* and 1002 % above it.
ValidateValues == {660, 5522, 4000, 5000, 5400, 5500, 6000, 55000, 55100}

\* The lists of at most MaxTargets targets.
TargetLists == UNION {[1..n -> ValidateValues] : n \in 0..MaxTargets}

\* Lines 157-165: valid_targets, the valid targets appended in the order
\* of the loop.
ValidatePsuTargets(targets, price) ==
    SelectSeq(targets, LAMBDA target : IsValidTarget(target, price))

\* The lists that hold the elements of a list in another order.
Reorderings(list) ==
    {other \in [1..Len(list) -> Elements(list)] :
        \A x \in Elements(list) :
            Cardinality({k \in 1..Len(list) : other[k] = x})
                = Cardinality({k \in 1..Len(list) : list[k] = x})}

\* validate_psu_targets is called and returns.
ApplyValidate ==
    /\ ~vdone
    /\ vdone' = TRUE
    /\ vvalid' = ValidatePsuTargets(vtargets, vprice)
    /\ UNCHANGED <<poolVars, gateVars, proc, pc, save_ctx, results_lock, future,
                   done_q, tresult, cur, i, stats, results, high_upside_results,
                   low_upside_results, file, main_output, signalled, handler_saved,
                   aggregated, seen, run, loaded, saves, pureVars,
                   arg_max_workers, textVars, vtargets, vprice, rt_msgs, fetchVars, loopVars>>

\* The arguments are drawn; the call has not returned.
InitValidate ==
    /\ InitPool /\ tpc = [t \in TickerSet |-> "new"] /\ InitGateVars /\ InitOrch
    /\ InitPure /\ InitArgs
    /\ ftext = <<>> /\ fdone = FALSE /\ ftargets = {} /\ flist = <<>>
    /\ vtargets \in TargetLists
    /\ vprice \in ValidatePrices
    /\ vdone = FALSE
    /\ vvalid = <<>>

NextValidate == ApplyValidate

SpecValidate == InitValidate /\ [][NextValidate]_vars

(***************************************************************************)
(* process_ticker (lines 312-446) for the first ticker, over the outcomes  *)
(* of its attempts: each attempt returns a result or raises an error.      *)
(***************************************************************************)
\* The errors an attempt can raise, by the except clause that takes them
\* (lines 380-441): requests' Timeout; a RequestException whose text has
\* '429' or 'rate limit' and names api.api-ninjas.com, sec.gov or neither;
\* any other RequestException; KeyError; ValueError; any other Exception.
ErrorClasses ==
    {"Timeout", "RateLimitNinjas", "RateLimitSec", "RateLimitOther", "Network",
     "KeyError", "ValueError", "Other"}

\* Line 388: '429' in str(e) or 'rate limit' in str(e).lower()
IsRateLimit(e) == e \in {"RateLimitNinjas", "RateLimitSec", "RateLimitOther"}

\* A mutant of Caught: the last clause, `except Exception`, is missing.
CaughtNamedOnly(e) == e # "Other"

\* The except clauses of lines 380-441 end with `except Exception`, which
\* takes every error.
Caught(e) == e \in ErrorClasses

\* A mutant of Backoff: every clause sleeps retry_delay.
BackoffFlat(e, attempt) == retry_delay

RECURSIVE Pow2(_)
Pow2(n) == IF n = 0 THEN 1 ELSE 2 * Pow2(n - 1)

\* The sleep before the next attempt (lines 383, 397, 404, 412, 420, 428),
\* in half seconds.
Backoff(e, attempt) ==
    IF IsRateLimit(e) THEN retry_delay * Pow2(attempt)
    ELSE IF e \in {"KeyError", "ValueError"} THEN retry_delay
    ELSE retry_delay * (attempt + 1)

\* Lines 323-327: the first retry of a ticker is counted.
CountRetry(st, attempt) == IF attempt = 1 THEN Bump(st, "retry_attempts") ELSE st

\* Lines 390-394: the rate-limit counter of the host the error names.
CountRateLimit(st, e) ==
    IF e = "RateLimitNinjas" THEN Bump(st, "api_ninjas_rate_limits")
    ELSE IF e = "RateLimitSec" THEN Bump(st, "sec_rate_limits")
    ELSE st

\* One pass of the loop (line 320) in which the attempt raises e.  The
\* clause that takes e counts, then sleeps and goes on to the next attempt,
\* or, at the last attempt, returns _create_error_result.
Raises(e) ==
    /\ rt_pc = "attempt"
    /\ Len(errs) < max_retries
    /\ errs' = Append(errs, e)
    /\ LET attempt == Len(errs)
           counted == CountRateLimit(CountRetry(stats, attempt), e)
       IN IF ~Caught(e)
          THEN /\ rt_pc' = "raised"
               /\ stats' = CountRetry(stats, attempt)
               /\ UNCHANGED <<rt_result, rt_sleeps>>
          ELSE IF attempt < max_retries - 1
          THEN /\ rt_sleeps' = Append(rt_sleeps, Backoff(e, attempt))
               /\ stats' = counted
               /\ UNCHANGED <<rt_pc, rt_result>>
          ELSE /\ rt_pc' = "returned"
               /\ rt_result' = ErrorResult(Tickers[1])
               /\ stats' = IF e = "Other" THEN Bump(counted, "permanent_failures")
                            ELSE counted
               /\ UNCHANGED rt_sleeps
    /\ UNCHANGED <<poolVars, gateVars, proc, pc, save_ctx, results_lock, future,
                   done_q, tresult, cur, i, results, high_upside_results,
                   low_upside_results, file, main_output, signalled, handler_saved,
                   aggregated, seen, run, loaded, saves, xprice, xfilings, xresult,
                   arg_max_workers, textVars, validVars, fetchVars, loopVars>>

\* The attempt raises an error of class e.
AttemptRaises(e) == Raises(e) /\ UNCHANGED rt_msgs

\* What the text of a RequestException that is no Timeout can carry of the
\* spec's rate-limit signals, and the host it names ("" for none).
RateLimitSignals == {"429", "rate limit", "too many requests"}

Hosts == {"api.api-ninjas.com", "sec.gov", ""}

RequestFailures == [signals : SUBSET RateLimitSignals, host : Hosts]

\* Lines 387-404: the clause `except requests.exceptions.RequestException`
\* takes the failure; the branch of line 388 and the counter of lines
\* 392-395 it comes to.
Classify(f) ==
    IF "429" \in f.signals \/ "rate limit" \in f.signals
    THEN IF f.host = "api.api-ninjas.com" THEN "RateLimitNinjas"
         ELSE IF f.host = "sec.gov" THEN "RateLimitSec"
         ELSE "RateLimitOther"
    ELSE "Network"

\* The attempt raises a RequestException with the text f.
RequestFails(f) == Raises(Classify(f)) /\ rt_msgs' = Append(rt_msgs, f)

\* One pass of the loop in which extract_from_ticker returns r (lines
\* 342-378): a result after a retry counts as a retry success, a
\* single-target rejection is counted, and r is returned.
AttemptReturns(r) ==
    /\ rt_pc = "attempt"
    /\ Len(errs) < max_retries
    /\ rt_pc' = "returned"
    /\ rt_result' = r
    /\ LET attempt == Len(errs)
           retried == CountRetry(stats, attempt)
           succeeded == IF attempt > 0 /\ (r.psu_targets > 0 \/ r.rejection_reason # NoReason)
                        THEN Bump(retried, "retry_successes")
                        ELSE retried
       IN stats' = IF r.psu_targets = 0 /\ IsSingleTargetReason(r.rejection_reason)
                   THEN Bump(succeeded, "single_target_rejections")
                   ELSE succeeded
    /\ UNCHANGED <<poolVars, gateVars, proc, pc, save_ctx, results_lock, future,
                   done_q, tresult, cur, i, results, high_upside_results,
                   low_upside_results, file, main_output, signalled, handler_saved,
                   aggregated, seen, run, loaded, saves, xprice, xfilings, xresult,
                   errs, rt_sleeps,
                   arg_max_workers, textVars, validVars, rt_msgs, fetchVars, loopVars>>

\* process_ticker has been called and stands before its first attempt.
InitRetry ==
    /\ InitArgs /\ InitNoText
    /\ InitPool /\ tpc = [t \in TickerSet |-> "new"] /\ InitGateVars /\ InitOrch
    /\ InitNoExtract
    /\ errs = <<>>
    /\ rt_pc = "attempt"
    /\ rt_result = NoResult
    /\ rt_sleeps = <<>>
    /\ rt_msgs = <<>>
    /\ InitNoFetch

NextRetry ==
    \/ \E e \in ErrorClasses : AttemptRaises(e)
    \/ \E r \in ExtractResults(Tickers[1]) : AttemptReturns(r)

SpecRetry == InitRetry /\ [][NextRetry]_vars

\* process_ticker with attempts that raise RequestExceptions.
NextClassify ==
    \/ \E f \in RequestFailures : RequestFails(f)
    \/ \E r \in ExtractResults(Tickers[1]) : AttemptReturns(r)

SpecClassify == InitRetry /\ [][NextClassify]_vars

(***************************************************************************)
(* The filing contents one call of extract_from_ticker holds               *)
(* (psu_extractor_api_ninjas.py 196-279, api_ninjas_client.py 229-257).    *)
(* The filings of the window are numbered 1..sf_n.                         *)
(***************************************************************************)
\* The unchanged variables of the steps below.
FetchFrame ==
    UNCHANGED <<poolVars, gateVars, proc, pc, save_ctx, results_lock, future,
                done_q, tresult, cur, i, stats, results, high_upside_results,
                low_upside_results, file, main_output, signalled, handler_saved,
                aggregated, seen, run, loaded, saves, pureVars,
                arg_max_workers, textVars, validVars, rt_msgs, loopVars>>

\* How many downloaded texts the call refers to: one in each filing dict
\* with a 'content', and the one its local `content` is bound to.
HeldContents == Len(filings_with_content) + (IF sf_content = 0 THEN 0 ELSE 1)

\* search_form4_filings, one pass of its loop (api_ninjas_client.py
\* 244-254): the filing's content is downloaded and, when it came, stored
\* in the filing's dict, which is kept.
SearchDownloads(came) ==
    /\ sf_pc = "search"
    /\ sf_k <= sf_n
    /\ fetched' = Append(fetched, sf_k)
    /\ filings_with_content' =
           IF came THEN Append(filings_with_content, sf_k) ELSE filings_with_content
    /\ sf_k' = sf_k + 1
    /\ UNCHANGED <<sf_n, sf_pc, sf_content, analysed>>
    /\ FetchFrame

\* search_form4_filings returns filings_with_content (line 257, or [] of
\* line 239); without filings extract_from_ticker returns (200-213),
\* otherwise it starts its own loop over them (216).
SearchReturns ==
    /\ sf_pc = "search"
    /\ sf_k > sf_n
    /\ sf_pc' = IF filings_with_content = <<>> THEN "returned" ELSE "analyse"
    /\ sf_k' = 1
    /\ UNCHANGED <<sf_n, filings_with_content, sf_content, fetched, analysed>>
    /\ FetchFrame

\* extract_from_ticker, one pass of its loop (216-277): the filing's
\* content is downloaded again (230) into `content`; when it came it is
\* passed to extract_psu_price_targets (236), otherwise `content` is None.
AnalyseDownloads(came) ==
    /\ sf_pc = "analyse"
    /\ sf_k <= Len(filings_with_content)
    /\ fetched' = Append(fetched, filings_with_content[sf_k])
    /\ sf_content' = IF came THEN filings_with_content[sf_k] ELSE 0
    /\ analysed' = IF came THEN Append(analysed, filings_with_content[sf_k])
                   ELSE analysed
    /\ sf_k' = sf_k + 1
    /\ UNCHANGED <<sf_n, sf_pc, filings_with_content>>
    /\ FetchFrame

\* extract_from_ticker returns (283-356): its locals, the list of filings
\* and `content`, are gone; the result holds no filing text but snippets.
AnalyseReturns ==
    /\ sf_pc = "analyse"
    /\ sf_k > Len(filings_with_content)
    /\ sf_pc' = "returned"
    /\ filings_with_content' = <<>>
    /\ sf_content' = 0
    /\ UNCHANGED <<sf_n, sf_k, fetched, analysed>>
    /\ FetchFrame

\* extract_from_ticker has the price and calls search_form4_filings (197),
\* whose get_sec_filings returned sf_n filings.
InitFetch ==
    /\ InitArgs /\ InitNoText
    /\ InitPool /\ tpc = [t \in TickerSet |-> "new"] /\ InitGateVars /\ InitOrch
    /\ InitNoExtract
    /\ errs = <<>> /\ rt_pc = "none" /\ rt_result = NoResult
    /\ rt_sleeps = <<>> /\ rt_msgs = <<>>
    /\ InitNoLoop
    /\ sf_n \in 0..WindowFilings
    /\ sf_pc = "search"
    /\ sf_k = 1
    /\ filings_with_content = <<>>
    /\ sf_content = 0
    /\ fetched = <<>>
    /\ analysed = <<>>

NextFetch ==
    \/ \E came \in BOOLEAN : SearchDownloads(came)
    \/ SearchReturns
    \/ \E came \in BOOLEAN : AnalyseDownloads(came)
    \/ AnalyseReturns

SpecFetch == InitFetch /\ [][NextFetch]_vars

(***************************************************************************)
(* The run with the retry loop of process_ticker (lines 312-446) step by   *)
(* step: every task passes the gate and calls extract_from_ticker once per *)
(* attempt, and takes global_lock for each counter it updates.  The calls  *)
(* may raise, as the except clauses of the loop provide for.  No signal    *)
(* and no kill comes.                                                      *)
(***************************************************************************)
\* The unchanged variables of a step of a task that changes no counter.
TaskFrame ==
    UNCHANGED <<gateVars, proc, pc, save_ctx, results_lock, cur, i, results,
                high_upside_results, low_upside_results, file, main_output,
                signalled, handler_saved, aggregated, seen, run, loaded, saves,
                pureVars, arg_max_workers, textVars, validVars, rt_msgs, fetchVars>>

\* A mutant of Released: leaving the `with` block keeps the lock.
ReleasedNever(t) == t

\* global_lock when task t leaves a `with self.global_lock:` block.
Released(t) == NoTicker

\* A pool thread takes the task from the work queue and enters the loop
\* (line 320).
StartTask(t) ==
    /\ proc = "running"
    /\ NextPending(t)
    /\ PoolHasIdleThread
    /\ tpc' = [tpc EXCEPT ![t] = "top"]
    /\ UNCHANGED <<global_lock, stats, future, done_q, tresult, loopVars>>
    /\ TaskFrame

\* Lines 320-327: the next attempt starts; the first retry is counted under
\* global_lock.  When range(max_retries) is used up the loop ends and
\* lines 443-446 count a permanent failure and return an error result.
LoopTop(t) ==
    /\ proc = "running"
    /\ tpc[t] = "top"
    /\ IF n_extract[t] >= max_retries
       THEN /\ global_lock = NoTicker
            /\ stats' = Bump(stats, "permanent_failures")
            /\ Return(t, ErrorResult(t))
       ELSE /\ n_extract[t] = 1 => global_lock = NoTicker
            /\ stats' = CountRetry(stats, n_extract[t])
            /\ tpc' = [tpc EXCEPT ![t] = "gate"]
            /\ UNCHANGED <<future, done_q, tresult>>
    /\ UNCHANGED <<global_lock, loopVars>>
    /\ TaskFrame

\* Line 330: the task acquires global_lock for the gate.
GateEnter(t) ==
    /\ proc = "running"
    /\ tpc[t] = "gate"
    /\ global_lock = NoTicker
    /\ global_lock' = t
    /\ n_gate' = [n_gate EXCEPT ![t] = @ + 1]
    /\ tpc' = [tpc EXCEPT ![t] = "in_gate"]
    /\ UNCHANGED <<stats, future, done_q, tresult, n_extract, terr>>
    /\ TaskFrame

\* Lines 331-338: the wait inside the gate is over, last_global_request is
\* stamped and global_lock released.
GateLeave(t) ==
    /\ proc = "running"
    /\ tpc[t] = "in_gate"
    /\ global_lock = t
    /\ global_lock' = Released(t)
    /\ tpc' = [tpc EXCEPT ![t] = "call"]
    /\ UNCHANGED <<stats, future, done_q, tresult, loopVars>>
    /\ TaskFrame

\* The result needs a counter: retry_successes (lines 345-347) for a
\* success or a rejection after a retry, single_target_rejections (lines
\* 366-369) for a single-target rejection.
CountsRetrySuccess(r, calls) ==
    calls > 1 /\ (r.psu_targets > 0 \/ r.rejection_reason # NoReason)

CountsSingleTarget(r) ==
    r.psu_targets = 0 /\ IsSingleTargetReason(r.rejection_reason)

\* Line 342: extract_from_ticker is called and returns r; a result that
\* needs no counter is returned at once (lines 350-378).
CallReturns(t) ==
    /\ proc = "running"
    /\ tpc[t] = "call"
    /\ n_extract' = [n_extract EXCEPT ![t] = @ + 1]
    /\ \E r \in ExtractResults(t) :
         IF CountsRetrySuccess(r, n_extract[t] + 1) \/ CountsSingleTarget(r)
         THEN /\ tresult' = [tresult EXCEPT ![t] = r]
              /\ tpc' = [tpc EXCEPT ![t] = "count_result"]
              /\ UNCHANGED <<future, done_q>>
         ELSE Return(t, r)
    /\ UNCHANGED <<global_lock, stats, n_gate, terr>>
    /\ TaskFrame

\* Lines 345-347 and 366-372: the counters of the result are updated under
\* global_lock and the result is returned.
CountResult(t) ==
    /\ proc = "running"
    /\ tpc[t] = "count_result"
    /\ global_lock = NoTicker
    /\ LET r == tresult[t]
           succeeded == IF CountsRetrySuccess(r, n_extract[t])
                        THEN Bump(stats, "retry_successes") ELSE stats
       IN stats' = IF CountsSingleTarget(r)
                   THEN Bump(succeeded, "single_target_rejections")
                   ELSE succeeded
    /\ Return(t, tresult[t])
    /\ UNCHANGED <<global_lock, loopVars>>
    /\ TaskFrame

\* Line 342: extract_from_ticker is called and raises an error of class e.
CallRaises(t) ==
    /\ proc = "running"
    /\ tpc[t] = "call"
    /\ n_extract' = [n_extract EXCEPT ![t] = @ + 1]
    /\ \E e \in ErrorClasses : terr' = [terr EXCEPT ![t] = e]
    /\ tpc' = [tpc EXCEPT ![t] = "except"]
    /\ UNCHANGED <<global_lock, stats, future, done_q, tresult, n_gate>>
    /\ TaskFrame

\* The clause updates a counter, which it does under global_lock: the
\* rate-limit counter of the named host (lines 390-394), permanent_failures
\* at the last attempt of `except Exception` (lines 438-439).
ClauseCounts(e, attempt) ==
    \/ e \in {"RateLimitNinjas", "RateLimitSec"}
    \/ e = "Other" /\ attempt >= max_retries - 1

\* Lines 380-441: the except clause that takes the error counts, then
\* sleeps and continues with the next attempt, or, at the last attempt,
\* returns _create_error_result.
Except(t) ==
    /\ proc = "running"
    /\ tpc[t] = "except"
    /\ LET e == terr[t]
           attempt == n_extract[t] - 1
           counted == CountRateLimit(stats, e)
       IN /\ ClauseCounts(e, attempt) => global_lock = NoTicker
          /\ IF attempt < max_retries - 1
             THEN /\ stats' = counted
                  /\ tpc' = [tpc EXCEPT ![t] = "top"]
                  /\ UNCHANGED <<future, done_q, tresult>>
             ELSE /\ stats' = IF e = "Other" THEN Bump(counted, "permanent_failures")
                               ELSE counted
                  /\ Return(t, ErrorResult(t))
    /\ terr' = [terr EXCEPT ![t] = "none"]
    /\ UNCHANGED <<global_lock, n_extract, n_gate>>
    /\ TaskFrame

Task(t) ==
    \/ StartTask(t)
    \/ LoopTop(t)
    \/ GateEnter(t)
    \/ GateLeave(t)
    \/ CallReturns(t)
    \/ CountResult(t)
    \/ CallRaises(t)
    \/ Except(t)

\* process_all_tickers_parallel on the main thread, without a signal.
Collector ==
    \/ Submit
    \/ Collect
    \/ AggUpdate
    \/ EndLoop
    \/ FinalStats
    \/ SaveSnapshot("main") \/ SaveOpen("main") \/ SaveStats("main")
    \/ SaveLists("main") \/ SaveResults("main")

NextRun == Collector \/ \E t \in TickerSet : Task(t)

\* The scheduler runs every thread that can take a step, and every
\* external call returns.
FairRun ==
    /\ Init
    /\ [][NextRun]_vars
    /\ WF_vars(Collector)
    /\ \A t \in TickerSet : WF_vars(Task(t))

(***************************************************************************)
(* Construction over a progress file left by an earlier process.           *)
(***************************************************************************)
\* The counters of __init__ (lines 36-49) that the model follows.
CounterKeys == DOMAIN EmptyState.stats

\* The keys a stats record in a progress file may hold: the counters and
\* 'total_tickers', which load_tickers (line 304) adds to self.stats.
FileStatsKeys == CounterKeys \cup {"total_tickers"}

\* A stats record with the keys K, every counter at 1.
StatsWithKeys(K) == [k \in K |-> 1]

\* The result lists of a progress file: none, or one success.
PersistedLists == {<<>>, <<SuccessResult(Tickers[1], 41)>>}

\* The progress files construction may find: none, an empty one, one cut
\* short within the stats, and complete records whose stats hold any
\* subset of the keys.
PersistedFiles ==
    {AbsentFile, FileOf("empty", EmptyState),
     FileOf("partial", [EmptyState EXCEPT !.stats = StatsWithKeys(CounterKeys)])}
    \cup {FileOf("complete", [stats |-> StatsWithKeys(K), results |-> L,
                              high_upside_results |-> L, low_upside_results |-> <<>>]) :
            K \in SUBSET FileStatsKeys, L \in PersistedLists}

\* An earlier process has ended and left a progress file.
InitLoad ==
    /\ InitArgs /\ InitNoText
    /\ InitPool /\ tpc = [t \in TickerSet |-> "new"] /\ InitGateVars /\ InitPure
    /\ InitData
    /\ file \in PersistedFiles
    /\ proc = "exited"
    /\ pc = [f \in Frames |-> IF f = "main" THEN "done" ELSE "none"]

NextLoad == Restart

SpecLoad == InitLoad /\ [][NextLoad]_vars

(***************************************************************************)
(* The collecting loop over a run long enough for periodic saves.  The     *)
(* pool is left out: every task has finished, and as_completed yields the  *)
(* futures one by one with the results the tasks returned.                 *)
(***************************************************************************)
\* The results the futures of this run hold: a success, a rejection, a
\* failure without price.
CadenceResults ==
    {SuccessResult(Tickers[1], 41), RejectionResult(Tickers[1], ValidReason),
     FailureResult(Tickers[1], TRUE)}

\* Lines 503-544, one pass of the loop for a future holding r: the
\* counters and lists are updated under results_lock, and after every
\* save_every-th future save_progress is called.
CLoopStep(r) ==
    /\ Running("main")
    /\ pc["main"] = "collect"
    /\ i < CadenceTickers
    /\ results_lock = "free"
    /\ LET S == Aggregate(Shared, r) IN
         /\ stats' = S.stats
         /\ results' = S.results
         /\ high_upside_results' = S.high_upside_results
         /\ low_upside_results' = S.low_upside_results
    /\ i' = i + 1
    /\ IF SaveDue(i + 1)
       THEN /\ pc' = [pc EXCEPT !["main"] = "save_snapshot"]
            /\ save_ctx' = "periodic"
       ELSE UNCHANGED <<pc, save_ctx>>
    /\ UNCHANGED <<poolVars, gateVars, proc, results_lock, future, done_q, tresult,
                   cur, file, main_output, signalled, handler_saved, aggregated,
                   seen, run, loaded, saves, pureVars,
                   arg_max_workers, textVars, validVars, rt_msgs, fetchVars, loopVars>>

\* Lines 503, 555-557: every future has been yielded; the final save.
CEndLoop ==
    /\ Running("main")
    /\ pc["main"] = "collect"
    /\ i = CadenceTickers
    /\ pc' = [pc EXCEPT !["main"] = "save_snapshot"]
    /\ save_ctx' = "final"
    /\ UNCHANGED <<poolVars, gateVars, proc, results_lock, future, done_q, tresult,
                   cur, i, stats, results, high_upside_results, low_upside_results,
                   file, main_output, signalled, handler_saved, aggregated, seen,
                   run, loaded, saves, pureVars,
                   arg_max_workers, textVars, validVars, rt_msgs, fetchVars, loopVars>>

\* main, lines 706-713: an exception leaves process_all_tickers_parallel
\* (the pool's __exit__ has nothing to wait for) and main's handler calls
\* save_progress and save_results.
TopLevelError ==
    /\ Running("main")
    /\ pc["main"] = "collect"
    /\ pc' = [pc EXCEPT !["main"] = "save_snapshot"]
    /\ save_ctx' = "fatal"
    /\ UNCHANGED <<poolVars, gateVars, proc, results_lock, future, done_q, tresult,
                   cur, i, stats, results, high_upside_results, low_upside_results,
                   file, main_output, signalled, handler_saved, aggregated, seen,
                   run, loaded, saves, pureVars,
                   arg_max_workers, textVars, validVars, rt_msgs, fetchVars, loopVars>>

\* The loop is entered with every task of the pool finished.
InitCadence ==
    /\ InitArgs /\ InitNoText
    /\ InitPool /\ tpc = [t \in TickerSet |-> "done"] /\ InitGateVars /\ InitPure
    /\ InitData
    /\ proc = "running"
    /\ pc = [f \in Frames |-> IF f = "main" THEN "collect" ELSE "none"]
    /\ file = AbsentFile

NextCadence ==
    \/ \E r \in CadenceResults : CLoopStep(r)
    \/ CEndLoop
    \/ TopLevelError
    \/ FinalStats
    \/ Signal
    \/ HandlerExit
    \/ Drain
    \/ \E f \in Frames : SaveSnapshot(f) \/ SaveOpen(f) \/ SaveStats(f) \/ SaveLists(f) \/ SaveResults(f)

SpecCadence == InitCadence /\ [][NextCadence]_vars

(***************************************************************************)
(* extract_psu_price_targets (psu_extractor_api_ninjas.py, lines 57-151).  *)
(* A filing text is a sequence of words and marks; amounts are in cents.   *)
(***************************************************************************)
\* The words a text is made of: a PSU keyword that heads a primary pattern
\* ('PSU', line 24), a PSU keyword that heads a secondary and a range
\* pattern ('target', lines 35 and 44), an excluded keyword ('warrant'),
\* the word of a range, the full stop, and three dollar amounts.
Words == {"PSU", "target", "warrant", "to", ".", "$12.50", "$20.00", "$50"}

\* The texts of at most MaxTextLen words.
Texts == UNION {[1..n -> Words] : n \in 0..MaxTextLen}

\* Lines 64-69 and 72-81, as far as Words goes.
PsuKeywords == {"PSU", "target"}

ExcludeKeywords == {"warrant"}

\* The words of the texts around the bounds of the filter of line 149: the
\* pattern heads, the word of a range, the full stop, and amounts below,
\* at and above the bounds.
BoundWords == {"PSU", "target", "to", ".", "$3", "$5", "$500", "$600"}

BoundTexts == UNION {[1..n -> BoundWords] : n \in 0..MaxTextLen}

\* What \$(\d+(?:\.\d+)?) captures, as float(...) reads it, in cents: of
\* the amounts of Words and BoundWords and of the pieces left of a cut
\* decimal point.
AmountCents ==
    [w \in {"$12.50", "$20.00", "$50", "$12", "$20", "$3", "$5", "$500", "$600"} |->
        CASE w = "$12.50" -> 1250
          [] w = "$20.00" -> 2000
          [] w = "$50" -> 5000
          [] w = "$12" -> 1200
          [] w = "$20" -> 2000
          [] w = "$3" -> 300
          [] w = "$5" -> 500
          [] w = "$500" -> 50000
          [] w = "$600" -> 60000]

IsAmount(w) == w \in DOMAIN AmountCents

\* Line 88: re.sub of '$X to $Y' by '$X_TO_$Y', from word k on; matches do
\* not overlap.
RECURSIVE ProtectRanges(_, _)
ProtectRanges(text, k) ==
    IF k + 2 > Len(text) THEN text
    ELSE IF IsAmount(text[k]) /\ text[k + 1] = "to" /\ IsAmount(text[k + 2])
    THEN ProtectRanges([text EXCEPT ![k + 1] = "_TO_"], k + 3)
    ELSE ProtectRanges(text, k + 1)

\* The amounts with a decimal point and their protected forms.
ProtectedForm ==
    [w \in {"$12.50", "$20.00"} |-> IF w = "$12.50" THEN "$12_DOT_50" ELSE "$20_DOT_00"]

\* A mutant of ProtectDecimals: decimal points are left as they are.
ProtectDecimalsNot(text) == text

\* Line 89: re.sub of ($\d+)\.(\d+) by \1_DOT_\2.
ProtectDecimals(text) ==
    [k \in 1..Len(text) |->
        IF text[k] \in DOMAIN ProtectedForm THEN ProtectedForm[text[k]] ELSE text[k]]

\* re.split(r'[.!?]', ...) cuts at every full stop, also at one inside an
\* amount: the word becomes its dollars, a cut, its cents.
CutAtPoint(w) ==
    IF w = "$12.50" THEN <<"$12", ".", "50">>
    ELSE IF w = "$20.00" THEN <<"$20", ".", "00">>
    ELSE <<w>>

RECURSIVE Spell(_)
Spell(text) ==
    IF text = <<>> THEN <<>> ELSE CutAtPoint(Head(text)) \o Spell(Tail(text))

\* Line 92: the segments between the full stops of a spelled text.
RECURSIVE SplitAtStops(_)
SplitAtStops(text) ==
    IF \A k \in 1..Len(text) : text[k] # "."
    THEN <<text>>
    ELSE LET p == CHOOSE k \in 1..Len(text) :
                      text[k] = "." /\ \A j \in 1..(k - 1) : text[j] # "."
         IN <<SubSeq(text, 1, p - 1)>> \o SplitAtStops(SubSeq(text, p + 1, Len(text)))

\* Lines 96-97: '_TO_' and '_DOT_' are put back.
Restore(sentence) ==
    [k \in 1..Len(sentence) |->
        IF sentence[k] = "_TO_" THEN "to"
        ELSE IF \E w \in DOMAIN ProtectedForm : ProtectedForm[w] = sentence[k]
        THEN CHOOSE w \in DOMAIN ProtectedForm : ProtectedForm[w] = sentence[k]
        ELSE sentence[k]]

\* Lines 87-97: the sentences the loop of line 94 sees.
Sentences(text) ==
    LET split == SplitAtStops(Spell(ProtectDecimals(ProtectRanges(text, 1))))
    IN [k \in 1..Len(split) |-> Restore(split[k])]

\* Mutants of Qualifies: no PSU keyword is asked for; no excluded keyword
\* is looked for.
QualifiesUnlessExcluded(sentence) ==
    ~ \E k \in 1..Len(sentence) : sentence[k] \in ExcludeKeywords

QualifiesWithKeyword(sentence) ==
    \E k \in 1..Len(sentence) : sentence[k] \in PsuKeywords

\* Lines 99-107: has_psu_keywords and not has_excluded.
Qualifies(sentence) ==
    /\ \E k \in 1..Len(sentence) : sentence[k] \in PsuKeywords
    /\ ~ \E k \in 1..Len(sentence) : sentence[k] \in ExcludeKeywords

\* Words p and q of a text stand in one sentence: no full stop from one to
\* the other (line 92; the points inside amounts are protected, line 89).
InSentence(text, p, q) ==
    \A j \in (IF p <= q THEN p ELSE q)..(IF p <= q THEN q ELSE p) : text[j] # "."

\* The sentence of word p holds an excluded keyword (line 105).
ExcludedAt(text, p) ==
    \E q \in 1..Len(text) : InSentence(text, p, q) /\ text[q] \in ExcludeKeywords

\* The sentence of word p qualifies as a PSU sentence (lines 102-107).
PsuSentenceAt(text, p) ==
    /\ \E q \in 1..Len(text) : InSentence(text, p, q) /\ text[q] \in PsuKeywords
    /\ ~ExcludedAt(text, p)

\* '$12.50 to $20.00' is written at words p, p + 1, p + 2.
RangeWrittenAt(text, p) ==
    /\ p + 2 <= Len(text)
    /\ text[p] = "$12.50" /\ text[p + 1] = "to" /\ text[p + 2] = "$20.00"

\* Lines 94-108: psu_sections.
PsuSections(text) == SelectSeq(Sentences(text), Qualifies)

\* '$X to $Y' stands at words q, q + 1, q + 2 of a section.
RangeAt(section, q) ==
    /\ q + 2 <= Len(section)
    /\ IsAmount(section[q]) /\ section[q + 1] = "to" /\ IsAmount(section[q + 2])

\* The range pattern 'target.*?$X to $Y' (line 44) on one section, from
\* word k on: after the first 'target' the first range, both groups
\* (lines 119-122); re.finditer goes on behind the match.
RECURSIVE TargetRangeMatches(_, _)
TargetRangeMatches(section, k) ==
    LET heads == {p \in k..Len(section) : section[p] = "target"} IN
    IF heads = {} THEN <<>>
    ELSE LET starts == {q \in (Least(heads) + 1)..Len(section) : RangeAt(section, q)}
         IN IF starts = {} THEN <<>>
            ELSE LET q == Least(starts)
                 IN <<AmountCents[section[q]], AmountCents[section[q + 2]]>>
                    \o TargetRangeMatches(section, q + 3)

\* The range pattern '$X to $Y' (line 46) on one section, from word k on:
\* both groups of every match; re.finditer's matches do not overlap.
RECURSIVE RangeMatches(_, _)
RangeMatches(section, k) ==
    IF k + 2 > Len(section) THEN <<>>
    ELSE IF RangeAt(section, k)
    THEN <<AmountCents[section[k]], AmountCents[section[k + 2]]>>
         \o RangeMatches(section, k + 3)
    ELSE RangeMatches(section, k + 1)

\* A pattern 'head.*?\$(\d+(?:\.\d+)?)' on one section, from word k on:
\* the first amount after each head, the search going on behind the match.
RECURSIVE HeadMatches(_, _, _)
HeadMatches(section, head, k) ==
    LET heads == {p \in k..Len(section) : section[p] = head} IN
    IF heads = {} THEN <<>>
    ELSE LET amounts == {q \in (Least(heads) + 1)..Len(section) : IsAmount(section[q])}
         IN IF amounts = {} THEN <<>>
            ELSE <<AmountCents[section[Least(amounts)]]>>
                 \o HeadMatches(section, head, Least(amounts) + 1)

\* The primary patterns (lines 23-31) and the secondary ones (33-38) on
\* one section: what they append to targets, in order.
PrimaryMatches(section) == HeadMatches(section, "PSU", 1)

SecondaryMatches(section) == HeadMatches(section, "target", 1)

\* Lines 115-124: what the range patterns append over the sections from
\* section k on, pattern by pattern within a section.
RECURSIVE RangeList(_, _)
RangeList(sections, k) ==
    IF k > Len(sections) THEN <<>>
    ELSE TargetRangeMatches(sections[k], 1) \o RangeMatches(sections[k], 1)
         \o RangeList(sections, k + 1)

\* Lines 138-145: what the secondary patterns append over the sections
\* from section k on.
RECURSIVE SecondaryList(_, _)
SecondaryList(sections, k) ==
    IF k > Len(sections) THEN <<>>
    ELSE SecondaryMatches(sections[k]) \o SecondaryList(sections, k + 1)

\* The values the tiers find over every section.
PrimaryTier(sections) == UNION {Elements(PrimaryMatches(sections[k])) : k \in 1..Len(sections)}

RangeTier(sections) == Elements(RangeList(sections, 1))

SecondaryTier(sections) == Elements(SecondaryList(sections, 1))

\* Lines 127-145: the loop over the sections from section k on with the
\* targets found so far: the primary patterns on section k, and then, if
\* targets is still empty, the secondary patterns on every section (the
\* `if not targets` of line 137 stands inside the loop of line 128).
RECURSIVE SingleValueTiers(_, _, _)
SingleValueTiers(sections, k, targets) ==
    IF k > Len(sections) THEN targets
    ELSE LET primary == targets \o PrimaryMatches(sections[k])
         IN SingleValueTiers(sections, k + 1,
                             IF primary = <<>> THEN SecondaryList(sections, 1)
                             ELSE primary)

\* Lines 61-145: targets as it stands before the filter.
Candidates(text) ==
    LET sections == PsuSections(text) IN
    IF sections = <<>> THEN <<>>
    ELSE LET ranges == RangeList(sections, 1)
         IN IF ranges # <<>> THEN ranges ELSE SingleValueTiers(sections, 1, <<>>)

\* Line 149: 5.00 <= t <= 500.00.
Plausible(t) == 500 <= t /\ t <= 50000

\* A mutant of FilterTargets: every candidate is kept.
FilterTargetsNot(targets) == targets

FilterTargets(targets) == SelectSeq(targets, Plausible)

\* Line 151: list(set(filtered_targets)), every value once, in an order
\* the set chooses.
ListOfSet(targets) ==
    LET S == Elements(targets)
    IN {l \in [1..Cardinality(S) -> S] : \A x \in S : \E k \in 1..Cardinality(S) : l[k] = x}

\* extract_psu_price_targets (lines 57-151): the lists the call can return.
ExtractPsuPriceTargets(text) ==
    IF PsuSections(text) = <<>> THEN {<<>>}
    ELSE ListOfSet(FilterTargets(Candidates(text)))

\* extract_psu_price_targets is called on the text and returns.
ApplyText ==
    /\ ~fdone
    /\ fdone' = TRUE
    /\ flist' \in ExtractPsuPriceTargets(ftext)
    /\ ftargets' = Elements(flist')
    /\ UNCHANGED <<poolVars, gateVars, proc, pc, save_ctx, results_lock, future,
                   done_q, tresult, cur, i, stats, results, high_upside_results,
                   low_upside_results, file, main_output, signalled, handler_saved,
                   aggregated, seen, run, loaded, saves, pureVars,
                   arg_max_workers, ftext, validVars, rt_msgs, fetchVars, loopVars>>

\* A filing text has been downloaded; the call has not returned.
InitText ==
    /\ InitPool /\ tpc = [t \in TickerSet |-> "new"] /\ InitGateVars /\ InitOrch
    /\ InitPure /\ InitArgs
    /\ ftext \in Texts
    /\ fdone = FALSE
    /\ ftargets = {}
    /\ flist = <<>>
    /\ InitNoValidate

NextText == ApplyText

SpecText == InitText /\ [][NextText]_vars

\* The call on a text with amounts around the bounds of the filter.
InitBound ==
    /\ InitPool /\ tpc = [t \in TickerSet |-> "new"] /\ InitGateVars /\ InitOrch
    /\ InitPure /\ InitArgs
    /\ ftext \in BoundTexts
    /\ fdone = FALSE
    /\ ftargets = {}
    /\ flist = <<>>
    /\ InitNoValidate

SpecBound == InitBound /\ [][NextText]_vars

(***************************************************************************)
(* The run for every pool size the caller can ask for.                     *)
(***************************************************************************)
\* The values of max_workers passed to the constructor.
WorkerArgs == 1..4

InitPoolArgs ==
    /\ InitPool /\ tpc = [t \in TickerSet |-> "new"] /\ InitGateVars /\ InitOrch
    /\ InitPure /\ InitNoText
    /\ arg_max_workers \in WorkerArgs

SpecPool == InitPoolArgs /\ [][Next]_vars

(***************************************************************************)
(* Properties.                                                             *)
(***************************************************************************)
Terminal == {"SUCCEEDED", "REJECTED", "FAILED_PERMANENT"}

\* process_all_tickers_parallel has returned after its final save.
Completed == pc["main"] = "done"

RECURSIVE SumOver(_, _)
SumOver(f, S) ==
    IF S = {} THEN 0
    ELSE LET x == CHOOSE y \in S : TRUE IN f[x] + SumOver(f, S \ {x})

\* C1: under SpecGate, for every interleaving of the pool's threads, two
\* consecutive grants of the global gate (stamps of last_global_request)
\* are at least global_min_request_interval apart, whichever tasks they
\* belong to.
C1_GrantsSpaced == grant_gap >= global_min_request_interval

\* Two tasks have been granted the gate, the second after sleeping in it.
C1_Witness ==
    /\ n_grants = 2
    /\ since_grant = 0
    /\ \A t \in TickerSet : tpc[t] = "price_delay"

\* C2: every external call is preceded by a gate grant of its own, and no
\* two external calls of the pool start closer together than
\* global_min_request_interval.
C2_CallsGated ==
    /\ n_calls <= n_grants
    /\ call_gap >= global_min_request_interval

\* One task, granted once, has sent its price request and its filing-list
\* request.
C2_Witness ==
    /\ n_grants = 1
    /\ n_calls = 2
    /\ call_gap < global_min_request_interval

\* A step of ticker t's task that the life cycle allows.
LegalStep(t) ==
    \/ Status(t)' = Status(t)
    \/ Status(t) = "NEW" /\ Status(t)' = "PENDING"
    \/ Status(t) = "PENDING" /\ Status(t)' = "RUNNING"
    \/ Status(t) = "RUNNING" /\ Status(t)' \in Terminal
    \/ proc' = "killed"

\* Every aggregated ticker is terminal and aggregated once, the processed
\* counter counts the aggregations, and a completed run has aggregated
\* every ticker.
AggregatedOnce ==
    /\ \A t \in TickerSet :
         /\ aggregated[t] <= 1
         /\ aggregated[t] = 1 => Status(t) \in Terminal
         /\ Completed => aggregated[t] = 1
    /\ stats.processed_tickers = SumOver(aggregated, TickerSet)

\* C3: in a run from the empty state every dispatched ticker goes
\* PENDING -> RUNNING -> one of SUCCEEDED, REJECTED, FAILED_PERMANENT and
\* keeps that state; its outcome is aggregated at most once, exactly once
\* when the run completes, and processed_tickers is incremented once per
\* aggregation.
C3_Lifecycle == [][(\A t \in TickerSet : LegalStep(t)) /\ AggregatedOnce']_vars

\* A completed run with a success and a rejection, each aggregated once.
C3_Witness ==
    /\ Completed
    /\ \E t, u \in TickerSet : Status(t) = "SUCCEEDED" /\ Status(u) = "REJECTED"
    /\ \A t \in TickerSet : aggregated[t] = 1

\* C4: when the N dispatched tasks have completed, in any order, and the
\* run has completed from the empty state, processed_tickers = N.
C4_ProcessedIsN == Completed => stats.processed_tickers = NumTickers

\* A completed run whose tasks completed in the reverse of the order of
\* submission.
C4_Witness ==
    /\ Completed
    /\ Len(results) = NumTickers
    /\ \A k \in 1..NumTickers : results[k].ticker = Tickers[NumTickers + 1 - k]
    /\ stats.processed_tickers = NumTickers

CombinedLength == Len(results) + Len(high_upside_results) + Len(low_upside_results)

C6_NoReprocess ==
    \A t \in loaded :
        /\ tpc[t] \notin {"extract", "count_rejection"}
        /\ Cardinality({k \in 1..Len(results) : results[k].ticker = t}) <= 1

\* The restarted process holds two results of AAPL.
C6_Witness ==
    /\ run = 2
    /\ "AAPL" \in loaded
    /\ Cardinality({k \in 1..Len(results) : results[k].ticker = "AAPL"}) = 2

\* C7: under FairSpec, a signal received at any point leads to the end of
\* the process with the handler's save_progress done (unless the process is
\* killed first).
C7_SignalLeadsToSavedExit ==
    signalled ~> ((proc = "exited" /\ handler_saved) \/ proc = "killed")

\* The handler stands at the acquisition of results_lock, which the frame
\* it interrupted holds.
C7_Witness ==
    /\ pc["handler"] = "save_snapshot"
    /\ results_lock = "main"

\* C8: once a signal has been received no PENDING task begins RUNNING, and
\* once the handler's save is done nothing is added to the result lists.
C8_NoStartAfterSignal ==
    [][/\ signalled => \A t \in TickerSet : Status(t) = "PENDING" => Status(t)' # "RUNNING"
       /\ handler_saved => UNCHANGED <<results, high_upside_results, low_upside_results>>]_vars

\* The handler has saved and left, and a task it found PENDING is RUNNING.
C8_Witness ==
    /\ handler_saved
    /\ pc["handler"] = "drain"
    /\ \E t \in TickerSet : Status(t) = "RUNNING"

C10_FileNeverTorn == proc = "killed" => file.kind \in {"absent", "complete"}

\* The process was killed between open(..., 'w') and the end of json.dump.
C10_Witness ==
    /\ proc = "killed"
    /\ file.kind \in {"empty", "partial"}

\* C11: construction over a missing progress file, or one that does not
\* parse (empty, cut short), completes, and the counters and the three
\* lists are those of __init__.
C11_LoadNeverAborts ==
    (run > 1 /\ file.kind \in {"absent", "empty", "partial"}) =>
        (proc = "running" /\ pc["main"] = "start" /\ Shared = EmptyState)

\* A process constructed over a progress file cut short within the stats.
C11_Witness ==
    /\ run = 2
    /\ file.kind = "partial"
    /\ proc = "running"
    /\ Shared = EmptyState

\* C12: after construction over a complete progress file every counter is
\* in self.stats, and a counter the file lacks has its default value.
C12_MissingCountersDefault ==
    (run > 1 /\ file.kind = "complete") =>
        /\ CounterKeys \subseteq DOMAIN stats
        /\ \A k \in CounterKeys \ DOMAIN file.data.stats : stats[k] = 0

\* A process constructed over a record without processed_tickers.
C12_Witness ==
    /\ run = 2
    /\ proc = "running"
    /\ "processed_tickers" \notin DOMAIN stats

C14_SavedCountMonotone ==
    \A k \in 1..(Len(saves) - 1) : saves[k] <= saves[k + 1]

\* Three saves of one run, the last with more processed tickers than the
\* first.
C14_Witness ==
    /\ Len(saves) >= 3
    /\ saves[1] < saves[Len(saves)]

\* C15: a returned result is a success only if the ticker has at least
\* two distinct targets that pass validation, and a ticker with fewer than
\* two is returned with a rejection reason and without targets.
C15_FewTargetsRejected ==
    xresult.ticker # NoTicker =>
        LET valid == {x \in UniqueTargets(xfilings) : xprice > 0 /\ IsValidTarget(x, xprice)}
        IN /\ xresult.psu_targets > 0 => Cardinality(valid) >= 2
           /\ Cardinality(valid) < 2 =>
                 xresult.psu_targets = 0 /\ xresult.rejection_reason # NoReason

\* A ticker with a price whose filing search lists nothing has been
\* returned without a rejection reason.
C15_Witness ==
    /\ xprice > 0
    /\ xfilings = <<>>
    /\ xresult.ticker # NoTicker
    /\ xresult.psu_targets = 0
    /\ xresult.rejection_reason = NoReason

\* The number of entries of a result list that belong to ticker t.
CountOf(list, t) == Cardinality({k \in 1..Len(list) : list[k].ticker = t})

\* C16: when the run has completed, single_target_rejections is the
\* number of tickers returned as quality-control rejections, whichever of
\* the two gates rejected them.
C16_RejectionsCounted ==
    Completed =>
        stats.single_target_rejections =
            Cardinality({t \in TickerSet : Status(t) = "REJECTED"})

\* A completed run with a ticker rejected after validation and no
\* rejection counted.
C16_Witness ==
    /\ Completed
    /\ \E t \in TickerSet : future[t] = RejectionResult(t, ValidReason)
    /\ stats.single_target_rejections = 0

C18_EveryTickerInResults ==
    Completed =>
        /\ main_output = results
        /\ \A t \in TickerSet : CountOf(results, t) = 1

\* A completed run, every ticker counted as processed, with a rejected
\* ticker that has no entry in the main result file.
C18_Witness ==
    /\ Completed
    /\ stats.processed_tickers = NumTickers
    /\ \E t \in TickerSet : Status(t) = "REJECTED" /\ CountOf(main_output, t) = 0

\* C19: when the run has completed, every ticker that failed permanently
\* has an entry with an error message in results, and failed_extractions
\* counts exactly those tickers.
C19_FailuresRecorded ==
    Completed =>
        /\ \A t \in TickerSet :
              Status(t) = "FAILED_PERMANENT" =>
                  \E k \in 1..Len(results) : results[k].ticker = t /\ results[k].error
        /\ stats.failed_extractions =
              Cardinality({t \in TickerSet : Status(t) = "FAILED_PERMANENT"})

\* A completed run with a ticker that had no price: counted as failed,
\* no entry in results.
C19_Witness ==
    /\ Completed
    /\ \E t \in TickerSet : future[t] = FailureResult(t, TRUE) /\ CountOf(results, t) = 0
    /\ stats.failed_extractions >= 1

\* C20: whatever errors its attempts raise, process_ticker does not
\* raise: as long as it has not returned it has an attempt left, what it
\* returns is a result of its ticker, and after max_retries failed
\* attempts it has returned a result with an error and retry_failed.
C20_NeverRaises ==
    /\ rt_pc # "raised"
    /\ rt_pc = "attempt" => Len(errs) < max_retries
    /\ rt_pc = "returned" => rt_result.ticker = Tickers[1]
    /\ Len(errs) = max_retries =>
          /\ rt_pc = "returned"
          /\ rt_result.error
          /\ rt_result.retry_failed

\* Every attempt has failed, the last with an error no named clause takes,
\* and the error result has been returned.
C20_Witness ==
    /\ Len(errs) = max_retries
    /\ errs[max_retries] = "Other"
    /\ rt_pc = "returned"
    /\ rt_result.retry_failed

\* C21: a ticker whose attempts all fail gets its error result after
\* max_retries + 1 attempts, the first one and max_retries retries.
C21_FourAttempts ==
    (rt_pc = "returned" /\ rt_result.retry_failed) => Len(errs) = max_retries + 1

\* The error result has been returned after three network errors.
C21_Witness ==
    /\ rt_pc = "returned"
    /\ rt_result.retry_failed
    /\ errs = <<"Network", "Network", "Network">>

\* C23: when process_ticker has returned a result tagged retry_failed,
\* permanent_failures has been incremented exactly once for the ticker and
\* single_target_rejections not at all, whatever the last error was.
C23_ExhaustedCounted ==
    (rt_pc = "returned" /\ rt_result.retry_failed) =>
        /\ stats.permanent_failures = 1
        /\ stats.single_target_rejections = 0

\* The retries have been exhausted by a timeout and permanent_failures
\* has not been incremented.
C23_Witness ==
    /\ rt_pc = "returned"
    /\ rt_result.retry_failed
    /\ errs[max_retries] = "Timeout"
    /\ stats.permanent_failures = 0

\* C24: every rate-limit failure, at attempt index 0, 1 or 2, is followed
\* by a backoff of retry_delay * 2^index.
C24_RateLimitBackoff ==
    \A k \in 1..Len(errs) :
        IsRateLimit(errs[k]) =>
            /\ k <= Len(rt_sleeps)
            /\ rt_sleeps[k] = retry_delay * Pow2(k - 1)

\* Three rate-limit failures: backoffs of 2 s and 4 s, then the error
\* result and no third backoff.
C24_Witness ==
    /\ Len(errs) = 3
    /\ \A k \in 1..3 : IsRateLimit(errs[k])
    /\ rt_sleeps = <<retry_delay, 2 * retry_delay>>
    /\ rt_pc = "returned"

C22_TransientFailurePropagates ==
    xresult.ticker # NoTicker =>
        \A k \in 1..Len(xfilings) : xfilings[k].fetch \notin TransientFailures

\* The content fetch of one filing timed out, another filing gave two
\* valid targets, and the attempt returned a success.
C22_Witness ==
    /\ \E k \in 1..Len(xfilings) : xfilings[k].fetch = "timeout"
    /\ xresult.ticker # NoTicker
    /\ xresult.psu_targets >= 2

\* C26: at every moment the number of RUNNING ticker tasks is at most the
\* max_workers the processor was constructed with.
C26_PoolSizeAsConfigured == Cardinality(RunningTasks) <= arg_max_workers

\* A processor constructed with max_workers=1 runs two tasks at once.
C26_Witness ==
    /\ arg_max_workers = 1
    /\ Cardinality(RunningTasks) = 2

(***************************************************************************)
(* C27: the result holds values of the earliest tier that matches in the   *)
(* qualifying segments, and of no other: of the range tier if a range      *)
(* pattern matches; else of the primary tier if a primary pattern matches; *)
(* else of the secondary tier.                                             *)
(***************************************************************************)
C27_EarliestTierOnly ==
    fdone =>
        LET sections == PsuSections(ftext)
            ranges == RangeTier(sections)
            primary == PrimaryTier(sections)
        IN /\ ranges # {} => ftargets \subseteq ranges
           /\ (ranges = {} /\ primary # {}) => ftargets \subseteq primary
           /\ (ranges = {} /\ primary = {}) =>
                  ftargets \subseteq SecondaryTier(sections)

\* 'target $50. PSU $20.00': no range, a primary match in the second
\* sentence, and the secondary value of the first sentence is returned too.
C27_Witness ==
    /\ fdone
    /\ ftext = <<"target", "$50", ".", "PSU", "$20.00">>
    /\ ftargets = {2000, 5000}

(***************************************************************************)
(* C28: a text that holds the range '$12.50 to $20.00' in a qualifying PSU *)
(* sentence, and in its qualifying sentences no amount outside such a      *)
(* range, yields exactly the two endpoints 12.50 and 20.00: the sentence   *)
(* is not cut at a decimal point, no endpoint is lost, no value is added.  *)
(***************************************************************************)
C28_RangeYieldsBothEndpoints ==
    (/\ fdone
     /\ \E p \in 1..Len(ftext) : RangeWrittenAt(ftext, p) /\ PsuSentenceAt(ftext, p)
     /\ \A q \in 1..Len(ftext) :
            (IsAmount(ftext[q]) /\ PsuSentenceAt(ftext, q)) =>
                \/ RangeWrittenAt(ftext, q)
                \/ q > 2 /\ RangeWrittenAt(ftext, q - 2))
    => ftargets = {1250, 2000}

\* 'PSU $12.50 to $20.00.' has returned the two endpoints.
C28_Witness ==
    /\ fdone
    /\ ftext = <<"PSU", "$12.50", "to", "$20.00", ".">>
    /\ ftargets = {1250, 2000}

(***************************************************************************)
(* C29: a text with no PSU keyword in any of its segments yields the empty *)
(* set, whatever amounts and ranges it holds.                              *)
(***************************************************************************)
C29_NoKeywordNoTargets ==
    (fdone /\ \A p \in 1..Len(ftext) : ftext[p] \notin PsuKeywords)
    => ftargets = {}

\* '$12.50 to $20.00. $50', no keyword, has returned nothing.
C29_Witness ==
    /\ fdone
    /\ ftext = <<"$12.50", "to", "$20.00", ".", "$50">>
    /\ ftargets = {}

(***************************************************************************)
(* C30: an amount that stands only in sentences holding an excluded        *)
(* keyword is not in the result, also when such a sentence holds a PSU     *)
(* keyword too.                                                            *)
(***************************************************************************)
C30_ExcludedAmountNeverReturned ==
    fdone =>
        \A p \in 1..Len(ftext) :
            (/\ IsAmount(ftext[p])
             /\ \A q \in 1..Len(ftext) :
                    (IsAmount(ftext[q]) /\ AmountCents[ftext[q]] = AmountCents[ftext[p]])
                        => ExcludedAt(ftext, q))
            => AmountCents[ftext[p]] \notin ftargets

\* 'PSU $50 warrant. $20.00' has returned neither amount.
C30_Witness ==
    /\ fdone
    /\ ftext = <<"PSU", "$50", "warrant", ".", "$20.00">>
    /\ ftargets = {}

(***************************************************************************)
(* C31: every returned value lies in [5.00, 500.00], the bounds included,  *)
(* no value is returned twice, and the candidates of every tier are        *)
(* returned exactly if they lie in that range.                             *)
(***************************************************************************)
C31_PlausibleAndDistinct ==
    fdone =>
        /\ \A k \in 1..Len(flist) : 500 <= flist[k] /\ flist[k] <= 50000
        /\ \A j, k \in 1..Len(flist) : j # k => flist[j] # flist[k]
        /\ \A x \in Elements(Candidates(ftext)) :
               x \in Elements(flist) <=> (500 <= x /\ x <= 50000)

\* 'target $5 to $600': both range patterns have matched, the candidates
\* are 5, 600, 5, 600, and 5.00 has been returned once.
C31_Witness ==
    /\ fdone
    /\ ftext = <<"target", "$5", "to", "$600">>
    /\ Candidates(ftext) = <<500, 60000, 500, 60000>>
    /\ flist = <<500>>

(***************************************************************************)
(* C32: validate_psu_targets returns exactly the targets t with t > price  *)
(* and 0.10 <= (t - price) / price <= 10.0, both bounds included, and the  *)
(* same targets for the input in any other order.                          *)
(***************************************************************************)
C32_ValidateExact ==
    vdone =>
        /\ Elements(vvalid) =
               {t \in Elements(vtargets) :
                   /\ t > vprice
                   /\ vprice <= 10 * (t - vprice)
                   /\ t - vprice <= 10 * vprice}
        /\ \A other \in Reorderings(vtargets) :
               Elements(ValidatePsuTargets(other, vprice)) = Elements(vvalid)

\* validate([6.60, 40.00, 60.00], 6.00) has returned [40.00, 60.00]: the
\* target 10 % above the price is not among them.
C32_Witness ==
    /\ vdone
    /\ vtargets = <<660, 4000, 6000>>
    /\ vprice = 600
    /\ vvalid = <<4000, 6000>>

(***************************************************************************)
(* C33: a successful result of extract_from_ticker carries as nearest      *)
(* upside (min - price) / price * 100 and as furthest upside               *)
(* (max - price) / price * 100 of its validated targets, so the furthest   *)
(* is at least the nearest; for {55, 70, 90} at 50 they are 10 and 80.     *)
(***************************************************************************)
C33_UpsidesOfMinAndMax ==
    /\ (xresult.ticker # NoTicker /\ xresult.psu_targets >= 2) =>
           LET valid == ValidateTargets(UniqueTargets(xfilings), xprice)
           IN /\ \E lo \in valid :
                    /\ \A y \in valid : lo <= y
                    /\ xresult.nearest_target_upside = ((lo - xprice) * 100) \div xprice
              /\ \E hi \in valid :
                    /\ \A y \in valid : y <= hi
                    /\ xresult.furthest_target_upside = ((hi - xprice) * 100) \div xprice
              /\ xresult.furthest_target_upside >= xresult.nearest_target_upside
    /\ NearestUpside({55, 70, 90}, 50) = 10
    /\ FurthestUpside({55, 70, 90}, 50) = 80

\* Targets 11, 14, 15 and 200 found at a price of 10: 11, 14 and 15 are
\* valid, the nearest upside is 10 %, the furthest 50 %.
C33_Witness ==
    /\ xresult.ticker # NoTicker
    /\ xresult.psu_targets = 3
    /\ xprice = 10
    /\ UniqueTargets(xfilings) = {11, 14, 15, 200}
    /\ xresult.nearest_target_upside = 10
    /\ xresult.furthest_target_upside = 50

(***************************************************************************)
(* C34: every step that changes a shared counter or one of the three       *)
(* result lists is taken by the thread that holds results_lock, the lock   *)
(* save_progress takes its snapshot under; no counter is changed by a task *)
(* under the lock of the gate.                                             *)
(***************************************************************************)
C34_MutationsUnderResultsLock ==
    [][Shared' # Shared => (results_lock \in Frames /\ tpc' = tpc)]_vars

\* A task has counted a single-target rejection, and no result has been
\* aggregated under results_lock yet.
C34_Witness ==
    /\ stats.single_target_rejections = 1
    /\ stats.processed_tickers = 0
    /\ \E t \in TickerSet :
          tpc[t] = "done" /\ IsSingleTargetReason(future[t].rejection_reason)

(***************************************************************************)
(* C35: no task sleeps while it holds a lock under which shared counters   *)
(* are updated, so no task that has a counter to update waits for the end  *)
(* of another task's sleep.                                                *)
(***************************************************************************)
C35_NoSleepUnderCounterLock ==
    \A t \in TickerSet : ~(global_lock = t /\ rem[t] > 0)

\* A task sleeps out the gate's wait inside `with self.global_lock`, the
\* lock the rejection counter is updated under, while another task is in
\* its extraction.
C35_Witness ==
    \E a, b \in TickerSet :
        /\ tpc[a] = "gate_sleep" /\ global_lock = a /\ rem[a] > 0
        /\ tpc[b] \in {"price_delay", "price_wait", "list_delay", "list_wait",
                        "dl_delay", "dl_wait"}

(***************************************************************************)
\* C36: a request failure whose text carries a rate-limit signal (429,
\* "rate limit" or "too many requests") is taken as a rate limit, whatever
\* else the text says: the sleep that follows it is retry_delay * 2^attempt,
\* and the counter of the host the text names is incremented once for it.
C36_RateLimitSignalWins ==
    /\ \A k \in 1..Len(rt_msgs) :
           rt_msgs[k].signals # {} =>
               /\ IsRateLimit(errs[k])
               /\ k <= Len(rt_sleeps) => rt_sleeps[k] = retry_delay * Pow2(k - 1)
    /\ stats.api_ninjas_rate_limits =
           Cardinality({k \in 1..Len(rt_msgs) :
                           /\ rt_msgs[k].signals # {}
                           /\ rt_msgs[k].host = "api.api-ninjas.com"})
    /\ stats.sec_rate_limits =
           Cardinality({k \in 1..Len(rt_msgs) :
                           rt_msgs[k].signals # {} /\ rt_msgs[k].host = "sec.gov"})

\* A failure of sec.gov that says only "too many requests" was taken by the
\* network-error branch, slept for, and counted nowhere.
C36_Witness ==
    /\ Len(rt_msgs) = 2
    /\ rt_msgs[1] = [signals |-> {"too many requests"}, host |-> "sec.gov"]
    /\ rt_msgs[2] = [signals |-> {"429"}, host |-> "sec.gov"]
    /\ errs = <<"Network", "RateLimitSec">>
    /\ rt_sleeps = <<retry_delay, 2 * retry_delay>>
    /\ stats.sec_rate_limits = 1

(***************************************************************************)
\* C37: within one ticker's extraction a filing's content is downloaded only
\* when that filing is about to be analysed (every filing downloaded before
\* the last download has been analysed or has failed to come, and no filing
\* is downloaded twice), and at most one downloaded content is held at any
\* time.
C37_LazyOneContent ==
    /\ HeldContents <= 1
    /\ \A k \in 1..Len(fetched) : \A j \in 1..Len(fetched) :
           fetched[k] = fetched[j] => k = j
    /\ sf_pc = "search" => fetched = <<>>

\* All three filings of the window are held with their contents while the
\* first of them, downloaded a second time, is analysed.
C37_Witness ==
    /\ sf_n = 3
    /\ sf_pc = "analyse"
    /\ filings_with_content = <<1, 2, 3>>
    /\ sf_content = 1
    /\ fetched = <<1, 2, 3, 1>>
    /\ analysed = <<1>>
    /\ HeldContents = 4

(***************************************************************************)
\* C38: when a run started from the empty state has completed,
\* processed_tickers is the sum of successful_extractions, failed_extractions
\* and the number of tickers whose result carries a rejection_reason; the
\* two bucket lists together have successful_extractions entries; and
\* single_target_rejections is at most the number of rejection results.
C38_CountersAddUp ==
    Completed =>
        LET rejected == {t \in TickerSet : future[t].rejection_reason # NoReason} IN
        /\ stats.processed_tickers =
               stats.successful_extractions + stats.failed_extractions
               + Cardinality(rejected)
        /\ Len(high_upside_results) + Len(low_upside_results) =
               stats.successful_extractions
        /\ stats.single_target_rejections <= Cardinality(rejected)

\* A completed run with a success and a rejection that was not counted as
\* a single-target one.
C38_Witness ==
    /\ Completed
    /\ stats.processed_tickers = 2
    /\ stats.successful_extractions = 1
    /\ stats.failed_extractions = 0
    /\ stats.single_target_rejections = 0
    /\ Len(high_upside_results) = 1
    /\ \E t \in TickerSet : future[t] = RejectionResult(t, ValidReason)

(***************************************************************************)
\* The threads of a run: the main thread and the tasks' pool threads.
Threads == TickerSet \cup {"main"}

HoldsGlobalLock(th) == global_lock = th

HoldsResultsLock(th) == th = "main" /\ results_lock \in Frames

\* Every call of extract_from_ticker made for t came after a passage of
\* the gate of its own, and there are at most max_retries of them.
AttemptsGated(t) ==
    /\ n_extract[t] <= max_retries
    /\ n_gate[t] = n_extract[t] + (IF tpc[t] \in {"in_gate", "call"} THEN 1 ELSE 0)

\* C39: without signals and with every external call returning,
\* process_all_tickers_parallel comes to its end with every dispatched
\* ticker aggregated (once); no thread ever holds global_lock and
\* results_lock together; and every ticker makes at most max_retries calls
\* of extract_from_ticker, each after exactly one passage of the gate.
C39_TerminatesAggregated ==
    /\ [](\A th \in Threads : ~(HoldsGlobalLock(th) /\ HoldsResultsLock(th)))
    /\ [](\A t \in TickerSet : AttemptsGated(t))
    /\ <>[](Completed /\ \A t \in TickerSet : aggregated[t] = 1)

\* A completed run in which one ticker used up its three attempts, each
\* with a passage of the gate, and the other returned at its first.
C39_Witness ==
    /\ Completed
    /\ \A t \in TickerSet : aggregated[t] = 1
    /\ \E t \in TickerSet : /\ n_extract[t] = max_retries
                             /\ n_gate[t] = max_retries
                             /\ future[t] = ErrorResult(t)
    /\ \E t \in TickerSet : n_extract[t] = 1 /\ n_gate[t] = 1
    /\ stats.processed_tickers = NumTickers

====
